---- MODULE Spec2Model ----
(***************************************************************************)
(* A model of the ingestion-and-retrieval pipeline of the research agent:  *)
(* search_web, fetch_page, split_chunks, embed_chunks, upsert_vectors,     *)
(* retrieve_context, synthesize_answer, ingest_topic, answer_question and  *)
(* ResearchAgent.  Strings the code inspects character by character        *)
(* (strip, prefix, lower, concatenation) are sequences of one-character    *)
(* strings; strings the code only compares are TLA+ strings.               *)
(***************************************************************************)
EXTENDS Integers, Sequences, FiniteSets, TLC

VARIABLES
    collections,  \* the persisted vector store: collection name -> (id -> record)
    last,         \* the call that ran last: its arguments, backend script and result
    clock,        \* the wall clock read by now_iso()
    hashSeed,     \* the per-process hash randomisation of the interpreter
    threads       \* the calls in progress of the concurrent callers: their position

vars == <<collections, last, clock, hashSeed, threads>>

(***************************************************************************)
(* Bounds of the model.                                                    *)
(***************************************************************************)
MaxClock == 1
MaxSeed == 1
MaxCtx == 4
MaxK == 4
MaxOrganic == 3
MaxEmbed == 3

(***************************************************************************)
(* Strings.                                                                *)
(***************************************************************************)
\* the white space str.strip removes; "\f" is also the white space that
\* _collapse_ws leaves in a text
Whitespace == {" ", "\n", "\t", "\f"}

Min(a, b) == IF a < b THEN a ELSE b
Max(a, b) == IF a > b THEN a ELSE b

Run(c, n) == [i \in 1..n |-> c]

\* str.lstrip(): the text after its leading white space
LStrip(s) ==
    LET k == CHOOSE k \in 0..Len(s) :
                 /\ \A i \in 1..k : s[i] \in Whitespace
                 /\ k < Len(s) => s[k + 1] \notin Whitespace
    IN  SubSeq(s, k + 1, Len(s))

\* str.rstrip(): the text before its trailing white space
RStrip(s) ==
    LET k == CHOOSE k \in 0..Len(s) :
                 /\ \A i \in (Len(s) - k + 1)..Len(s) : s[i] \in Whitespace
                 /\ k < Len(s) => s[Len(s) - k] \notin Whitespace
    IN  SubSeq(s, 1, Len(s) - k)

\* str.strip()
Strip(s) == RStrip(LStrip(s))

\* str.lower() on the letters the model uses
LowerChar(c) ==
    CASE c = "A" -> "a" [] c = "B" -> "b" [] c = "H" -> "h" [] c = "X" -> "x"
      [] c = "Y" -> "y" [] OTHER -> c

Lower(s) == [i \in 1..Len(s) |-> LowerChar(s[i])]

\* s[:n]
Take(s, n) == SubSeq(s, 1, Min(n, Len(s)))

\* str(n) for a non-negative integer
DigitChars == <<"0", "1", "2", "3", "4", "5", "6", "7", "8", "9">>

RECURSIVE IntStr(_)
IntStr(n) == IF n < 10 THEN <<DigitChars[n + 1]>> ELSE IntStr(n \div 10) \o <<DigitChars[(n % 10) + 1]>>

RECURSIVE Concat(_)
Concat(ss) == IF ss = <<>> THEN <<>> ELSE Head(ss) \o Concat(Tail(ss))

\* the elements of a sequence
Range(s) == {s[i] : i \in 1..Len(s)}

\* the subsequence of s at the increasing positions idx
RECURSIVE SelectAt(_, _, _)
SelectAt(s, keep, i) ==
    IF i > Len(s) THEN <<>>
    ELSE (IF i \in keep THEN <<s[i]>> ELSE <<>>) \o SelectAt(s, keep, i + 1)

(***************************************************************************)
(* Settings (config/settings.py).                                          *)
(***************************************************************************)
MAX_RETRIES == 2
MAX_SEARCH_RESULTS == 3
CHUNK_SIZE_TOKENS == 800
CHUNK_OVERLAP_TOKENS == 120

(***************************************************************************)
(* URLs.  A URL is given in the parsed form urlparse returns; UrlStr is    *)
(* the string (urlunparse).  bad marks a string urlparse raises on.        *)
(***************************************************************************)
Url(scheme, netloc, path) ==
    [scheme |-> scheme, netloc |-> netloc, path |-> path, query |-> <<>>,
     fragment |-> <<>>, bad |-> FALSE]

\* urlencode: the query's key=value pairs joined by "&"
RECURSIVE QueryStr(_)
QueryStr(q) ==
    IF q = <<>> THEN <<>>
    ELSE Head(q).text \o (IF Tail(q) = <<>> THEN <<>> ELSE <<"&">> \o QueryStr(Tail(q)))

UrlStr(u) ==
    (IF u.scheme = <<>> THEN <<>> ELSE u.scheme \o <<":", "/", "/">>)
    \o u.netloc \o u.path
    \o (IF u.query = <<>> THEN <<>> ELSE <<"?">> \o QueryStr(u.query))
    \o (IF u.fragment = <<>> THEN <<>> ELSE <<"#">> \o u.fragment)

HTTP == <<"h", "t", "t", "p">>
HTTPS == <<"h", "t", "t", "p", "s">>
FTP == <<"f", "t", "p">>

(***************************************************************************)
(* fetch_page (tools/fetch_page.py).  A backend script gives the outcome   *)
(* of each requests.get in turn: a RequestException, or a response with    *)
(* its status, content type and body.                                      *)
(***************************************************************************)
\* the statuses retried, with 404 among them
RETRYABLE_and_not_found == {404, 408, 409, 425, 429, 500, 502, 503, 504}

RETRYABLE == {408, 409, 425, 429, 500, 502, 503, 504}

\* resp.headers.get("Content-Type"), and whether its lower-cased value
\* contains "text/html" or "application/xhtml+xml"
CTypes == {"text/html; charset=utf-8", "Text/HTML", "application/xhtml+xml",
           "application/pdf", "none"}

\* a check that lets every content type through
IsHtmlCtype_any(ctype) == ctype \in CTypes

IsHtmlCtype(ctype) ==
    ctype \in {"text/html; charset=utf-8", "Text/HTML", "application/xhtml+xml"}

Exc == [kind |-> "exc"]
Resp(status, ctype, body) == [kind |-> "resp", status |-> status, ctype |-> ctype, body |-> body]

\* a scheme check that only asks for some scheme
_is_http_url_any_scheme(u) ==
    IF u.bad THEN FALSE ELSE u.scheme # <<>>

_is_http_url(u) ==
    IF u.bad THEN FALSE ELSE Lower(u.scheme) \in {HTTP, HTTPS}

FetchReturn(url, html, status, requests, waits) ==
    [raised |-> FALSE,
     value |-> [url |-> url, html |-> html, status |-> status],
     requests |-> requests, waits |-> waits]

RECURSIVE fetch_loop(_, _, _, _, _)
fetch_loop(url, script, attempt, backoff, waits) ==
    IF ~(attempt < MAX_RETRIES + 1)
    THEN FetchReturn(url, "", 0, attempt, waits)
    ELSE LET a == attempt + 1
             o == script[a]
         IN  IF o.kind = "exc"
             THEN IF a < MAX_RETRIES + 1
                  THEN fetch_loop(url, script, a, backoff * 2, Append(waits, backoff))
                  ELSE FetchReturn(url, "", 0, a, waits)
             ELSE IF o.status # 200
                  THEN IF o.status \in RETRYABLE /\ a < MAX_RETRIES + 1
                       THEN fetch_loop(url, script, a, backoff * 2, Append(waits, backoff))
                       ELSE FetchReturn(url, "", o.status, a, waits)
                  ELSE IF ~IsHtmlCtype(o.ctype)
                       THEN FetchReturn(url, "", o.status, a, waits)
                       ELSE FetchReturn(url, o.body, o.status, a, waits)

\* what the calls of requests.get give in turn: for a URL without a host each
\* raises InvalidURL (a RequestException) before anything is sent
RequestOutcomes(url, script) ==
    IF url.netloc = <<>> THEN [i \in 1..Len(script) |-> Exc] ELSE script

fetch_page(url, script) ==
    IF ~_is_http_url(url)
    THEN FetchReturn(url, "", 0, 0, <<>>)
    ELSE fetch_loop(url, RequestOutcomes(url, script), 0, 1, <<>>)

(***************************************************************************)
(* The state after construction: an empty persisted store, no call yet.    *)
(***************************************************************************)
NoCollections == [n \in {} |-> {}]

\* no concurrent caller
NoThreads == <<>>

Init ==
    /\ collections = NoCollections
    /\ last = [op |-> "init"]
    /\ clock = 0
    /\ hashSeed = 0
    /\ threads = NoThreads

(***************************************************************************)
(* Calls of fetch_page on every URL shape and every backend script.        *)
(***************************************************************************)
FetchUrls ==
    { Url(HTTP, <<"h">>, <<>>),
      Url(HTTPS, <<"h">>, <<"/", "p">>),
      Url(<<"H", "T", "T", "P">>, <<"h">>, <<>>),
      Url(FTP, <<"h">>, <<>>),
      Url(<<>>, <<>>, <<"x">>),
      Url(HTTP, <<>>, <<"/", "p">>),
      [Url(HTTP, <<"[">>, <<>>) EXCEPT !.bad = TRUE] }

FetchOutcomes ==
    { Exc,
      Resp(200, "text/html; charset=utf-8", "page"),
      Resp(200, "Text/HTML", ""),
      Resp(200, "application/pdf", "page"),
      Resp(200, "none", "page"),
      Resp(404, "text/html; charset=utf-8", "page"),
      Resp(503, "text/html; charset=utf-8", "page"),
      Resp(429, "none", ""),
      Resp(501, "text/html; charset=utf-8", "page"),
      Resp(500, "application/pdf", "") }

FetchScripts == [1..(MAX_RETRIES + 1) -> FetchOutcomes]

InitFetch ==
    /\ collections = NoCollections
    /\ clock = 0
    /\ hashSeed = 0
    /\ threads = NoThreads
    /\ \E url \in FetchUrls, script \in FetchScripts :
          last = [op |-> "fetch_page", done |-> FALSE, url |-> url, script |-> script]

FetchPage ==
    /\ last.op = "fetch_page" /\ ~last.done
    /\ last' = [op |-> "fetch_page", done |-> TRUE, url |-> last.url,
                script |-> last.script, out |-> fetch_page(last.url, last.script)]
    /\ UNCHANGED <<collections, clock, hashSeed, threads>>

NextFetch == FetchPage

SpecFetch == InitFetch /\ [][NextFetch]_vars

\* C2: fetch_page never raises: for every URL and every backend script it
\* returns, after at most MAX_RETRIES + 1 requests, a record with exactly the
\* keys url, html, status; for a URL whose scheme is not http/https it returns
\* status 0 and html "" without issuing any request.
C2_FetchNeverRaises ==
    (last.op = "fetch_page" /\ last.done) =>
        /\ ~last.out.raised
        /\ DOMAIN last.out.value = {"url", "html", "status"}
        /\ last.out.value.url = last.url
        /\ last.out.requests <= MAX_RETRIES + 1
        /\ (last.url.bad \/ Lower(last.url.scheme) \notin {HTTP, HTTPS}) =>
              /\ last.out.value.status = 0
              /\ last.out.value.html = ""
              /\ last.out.requests = 0

C2_Witness ==
    /\ last.op = "fetch_page" /\ last.done
    /\ \A i \in 1..(MAX_RETRIES + 1) : last.script[i] = Exc
    /\ last.out.requests = MAX_RETRIES + 1
    /\ ~last.out.raised
    /\ last.out.value = [url |-> last.url, html |-> "", status |-> 0]

(***************************************************************************)
(* search_web (tools/search_web.py).                                       *)
(***************************************************************************)
_UTM_KEYS == {"utm_source", "utm_medium", "utm_campaign", "utm_term", "utm_content",
              "gclid", "fbclid", "igshid", "mc_cid", "mc_eid", "_hsenc", "_hsmi"}

EmptyUrl == Url(<<>>, <<>>, <<>>)

\* the query's pairs whose key is no tracking key, in order
RECURSIVE StripTracking(_)
StripTracking(q) ==
    IF q = <<>> THEN <<>>
    ELSE (IF Head(q).key \in _UTM_KEYS THEN <<>> ELSE <<Head(q)>>) \o StripTracking(Tail(q))

_normalize_url(u) ==
    IF u.bad THEN EmptyUrl
    ELSE IF Lower(u.scheme) \notin {HTTP, HTTPS} THEN EmptyUrl
    ELSE [u EXCEPT !.scheme = Lower(u.scheme), !.query = StripTracking(u.query),
                   !.fragment = <<>>]

_domain(u) == IF u.bad THEN <<>> ELSE Lower(u.netloc)

\* the number of kept hits of domain d
DomainCount(out, d) == Cardinality({i \in 1..Len(out) : _domain(out[i].url) = d})

RECURSIVE dedupe_loop(_, _, _, _)
dedupe_loop(items, per_domain_limit, seen_urls, out) ==
    IF items = <<>> THEN out
    ELSE LET it == Head(items)
             url == UrlStr(it.url)
             d == _domain(it.url)
         IN  IF url = <<>> \/ url \in seen_urls
             THEN dedupe_loop(Tail(items), per_domain_limit, seen_urls, out)
             ELSE IF d = <<>>
             THEN dedupe_loop(Tail(items), per_domain_limit, seen_urls, out)
             ELSE IF DomainCount(out, d) >= per_domain_limit
             THEN dedupe_loop(Tail(items), per_domain_limit, seen_urls, out)
             ELSE dedupe_loop(Tail(items), per_domain_limit, seen_urls \cup {url},
                              Append(out, it))

\* URL dedup alone, the per-domain cap forgotten
_dedupe_no_cap(items, per_domain_limit) ==
    dedupe_loop(items, Len(items) + 1, {}, <<>>)

_dedupe_and_diversify(items, per_domain_limit) ==
    dedupe_loop(items, per_domain_limit, {}, <<>>)

\* the hits built from the provider's organic results: link normalised, title
\* and snippet stripped, items without url or title dropped
RECURSIVE OrganicHits(_)
OrganicHits(organic) ==
    IF organic = <<>> THEN <<>>
    ELSE LET item == Head(organic)
             url == _normalize_url(item.link)
             title == Strip(item.title)
             snippet == Strip(item.snippet)
         IN  (IF UrlStr(url) # <<>> /\ title # <<>>
              THEN <<[title |-> title, url |-> url, snippet |-> snippet]>>
              ELSE <<>>) \o OrganicHits(Tail(organic))

\* results[:k] with the k search_web uses
ClampK(k) == Max(1, Min(k, MAX_SEARCH_RESULTS))

SearchReturn(hits, requests, waits) ==
    [raised |-> FALSE, value |-> hits, requests |-> requests, waits |-> waits]

\* an exception that is no RequestException leaves the loop and the call
SearchRaise(requests, waits) ==
    [raised |-> TRUE, value |-> <<>>, requests |-> requests, waits |-> waits]

RECURSIVE search_loop(_, _, _, _, _)
search_loop(k, script, attempt, backoff, waits) ==
    IF ~(attempt < MAX_RETRIES + 1)
    THEN SearchReturn(<<>>, attempt, waits)
    ELSE LET o == script[attempt + 1]
         IN  IF o.kind = "exc"
             THEN search_loop(k, script, attempt + 1, backoff * 2, Append(waits, backoff))
             ELSE IF o.status = 200
             THEN IF o.body = "not_json"
                  THEN IF o.caught
                       THEN search_loop(k, script, attempt + 1, backoff * 2,
                                        Append(waits, backoff))
                       ELSE SearchRaise(attempt + 1, waits)
                  ELSE IF o.body = "not_object"
                  THEN SearchRaise(attempt + 1, waits)
                  ELSE SearchReturn(Take(_dedupe_and_diversify(OrganicHits(o.organic), 2), k),
                                    attempt + 1, waits)
             ELSE IF o.status \in {429, 500, 502, 503, 504}
             THEN search_loop(k, script, attempt + 1, backoff * 2, Append(waits, backoff))
             ELSE SearchReturn(<<>>, attempt + 1, waits)

\* env.key: whether SERPAPI_API_KEY is set; env.script: the outcome of each
\* request in turn.  A response has the body "object" (a JSON object, its
\* organic_results given), "not_object" (JSON of another type: data.get raises
\* AttributeError) or "not_json" (r.json() raises: a RequestException with
\* requests 2.27 and later, caught, and a plain ValueError before)
\* num: params["num"], the number of results asked of the provider
search_web(k, env) ==
    IF ~env.key THEN SearchReturn(<<>>, 0, <<>>) @@ [num |-> 0]
    ELSE search_loop(ClampK(k), env.script, 0, 1, <<>>) @@ [num |-> ClampK(k)]

(***************************************************************************)
(* Calls of search_web on every list of organic results of the provider.   *)
(***************************************************************************)
OrganicItem(link, title) == [link |-> link, title |-> title, snippet |-> <<" ", "s">>]

OrganicPool ==
    { OrganicItem(Url(HTTP, <<"h">>, <<"/", "a">>), <<"A">>),
      OrganicItem([Url(HTTP, <<"h">>, <<"/", "a">>) EXCEPT
                      !.query = <<[key |-> "utm_source", text |-> <<"u", "=", "1">>]>>],
                  <<"B">>),
      OrganicItem(Url(HTTP, <<"H">>, <<"/", "b">>), <<"C", " ">>),
      OrganicItem([Url(HTTPS, <<"h">>, <<"/", "c">>) EXCEPT !.fragment = <<"f">>], <<"D">>),
      OrganicItem(Url(HTTP, <<"x">>, <<>>), <<"E">>),
      OrganicItem(Url(FTP, <<"h">>, <<>>), <<"F">>),
      OrganicItem(Url(HTTP, <<>>, <<"/", "p">>), <<"G">>) }

SeqsUpTo(S, n) == UNION {[1..m -> S] : m \in 0..n}

SResp(status, organic) ==
    [kind |-> "resp", status |-> status, organic |-> organic, body |-> "object"]

SNotObject == [kind |-> "resp", status |-> 200, body |-> "not_object"]
SNotJson(caught) == [kind |-> "resp", status |-> 200, body |-> "not_json", caught |-> caught]

SearchEnvs(organic) ==
    { [key |-> FALSE, script |-> <<>>],
      [key |-> TRUE, script |-> <<SResp(200, organic)>>],
      [key |-> TRUE, script |-> <<Exc, SResp(200, organic)>>],
      [key |-> TRUE, script |-> <<SResp(503, <<>>), SResp(429, <<>>), SResp(200, organic)>>],
      [key |-> TRUE, script |-> <<SResp(404, <<>>)>>],
      [key |-> TRUE, script |-> <<Exc, Exc, Exc>>],
      [key |-> TRUE, script |-> <<SResp(500, <<>>), Exc, SResp(503, <<>>)>>],
      [key |-> TRUE, script |-> <<SResp(502, <<>>), SNotObject>>],
      [key |-> TRUE, script |-> <<SNotJson(TRUE), SResp(200, organic)>>],
      [key |-> TRUE, script |-> <<SNotJson(FALSE)>>] }

InitSearch ==
    /\ collections = NoCollections
    /\ clock = 0
    /\ hashSeed = 0
    /\ threads = NoThreads
    /\ \E organic \in SeqsUpTo(OrganicPool, MaxOrganic), k \in 0..MaxK :
          \E env \in SearchEnvs(organic) :
             last = [op |-> "search_web", done |-> FALSE, k |-> k, organic |-> organic,
                     env |-> env]

SearchWeb ==
    /\ last.op = "search_web" /\ ~last.done
    /\ last' = [op |-> "search_web", done |-> TRUE, k |-> last.k,
                organic |-> last.organic, env |-> last.env,
                out |-> search_web(last.k, last.env)]
    /\ UNCHANGED <<collections, clock, hashSeed, threads>>

NextSearch == SearchWeb

SpecSearch == InitSearch /\ [][NextSearch]_vars

RECURSIVE IsSubseq(_, _)
IsSubseq(a, b) ==
    IF a = <<>> THEN TRUE
    ELSE IF b = <<>> THEN FALSE
    ELSE IF Head(a) = Head(b) THEN IsSubseq(Tail(a), Tail(b))
    ELSE IsSubseq(a, Tail(b))

\* the hits of n that are the first of their URL in n, in order
FirstOfUrl(n) ==
    SelectAt(n, {j \in 1..Len(n) :
                    \A i \in 1..(j - 1) : UrlStr(n[i].url) # UrlStr(n[j].url)}, 1)

\* no URL twice, at most 2 hits per (lower-cased) host, and a subsequence of the
\* first occurrences of the normalised hits
Diversified(r, n) ==
    /\ \A i, j \in 1..Len(r) : i # j => UrlStr(r[i].url) # UrlStr(r[j].url)
    /\ \A i \in 1..Len(r) :
          Cardinality({j \in 1..Len(r) : Lower(r[j].url.netloc) = Lower(r[i].url.netloc)}) <= 2
    /\ IsSubseq(r, FirstOfUrl(n))

\* C10 (as amended): the list search_web returns has no two hits with the same
\* URL, at most 2 hits per domain, keeps the normalised hits in their original
\* relative order (first occurrence kept), and has at most
\* max(1, min(k, MAX_SEARCH_RESULTS)) items.
C10_Diversified ==
    (last.op = "search_web" /\ last.done /\ ~last.out.raised) =>
        /\ Diversified(last.out.value, OrganicHits(last.organic))
        /\ Len(last.out.value) <= Max(1, Min(last.k, MAX_SEARCH_RESULTS))

\* C10 (as stated): ... and has at most k items.
C10_AtMostLimit ==
    (last.op = "search_web" /\ last.done /\ ~last.out.raised) =>
        /\ Diversified(last.out.value, OrganicHits(last.organic))
        /\ Len(last.out.value) <= last.k

\* three hits of one domain with distinct URLs, the third dropped by the cap
C10_Witness ==
    /\ last.op = "search_web" /\ last.done
    /\ last.k = 3
    /\ last.out.requests = 2
    /\ Len(last.out.value) = 2
    /\ Len(OrganicHits(last.organic)) = 3
    /\ \A i \in 1..3 : Lower(OrganicHits(last.organic)[i].url.netloc) = <<"h">>
    /\ \A i, j \in 1..3 : i # j => UrlStr(OrganicHits(last.organic)[i].url)
                                     # UrlStr(OrganicHits(last.organic)[j].url)

(***************************************************************************)
(* split_chunks (tools/split_chunks.py).                                   *)
(***************************************************************************)
PREFIX_LEN == 40

\* the built-in hash(), salted per process
_hash_id_salted(s) == [kind |-> "hash", seed |-> hashSeed, s |-> s]

\* hashlib.sha1(s).hexdigest(): a digest determined by s alone, taken to be
\* free of collisions
_hash_id(s) == [kind |-> "sha1", s |-> s]

\* str.replace("\n", " ")
ReplaceNewlines(s) == [i \in 1..Len(s) |-> IF s[i] = "\n" THEN " " ELSE s[i]]

\* RecursiveCharacterTextSplitter(chunk_size, chunk_overlap).split_text: a text
\* that fits one chunk comes back whole; a longer text without separators is cut
\* into windows of chunk_size that advance by chunk_size - chunk_overlap.  Every
\* piece is stripped and empty pieces are left out.
SplitWindows(text, size, overlap) ==
    LET n == Len(text)
        step == size - overlap
        m == IF n <= size THEN 1 ELSE ((n - size + step - 1) \div step) + 1
    IN  [j \in 1..m |-> SubSeq(text, 1 + (j - 1) * step, Min((j - 1) * step + size, n))]

split_text(text, size, overlap) ==
    LET w == SplitWindows(text, size, overlap)
    IN  SelectAt([j \in 1..Len(w) |-> Strip(w[j])],
                 {j \in 1..Len(w) : Strip(w[j]) # <<>>}, 1)

RECURSIVE chunk_loop(_, _, _, _)
chunk_loop(pieces, order, url, title) ==
    IF order >= Len(pieces) THEN <<>>
    ELSE LET text == Strip(pieces[order + 1])
             prefix == ReplaceNewlines(Take(text, PREFIX_LEN))
             chunk_id == _hash_id(url \o <<"|">> \o IntStr(order) \o <<"|">> \o prefix)
         IN  (IF text = <<>> THEN <<>>
              ELSE <<[chunk_id |-> chunk_id, text |-> text, url |-> url,
                      title |-> title, order |-> order]>>)
             \o chunk_loop(pieces, order + 1, url, title)

\* 0 stands for an argument left at None
split_chunks(doc_text, url, title, chunk_size_tokens, overlap_tokens) ==
    IF doc_text = <<>> THEN <<>>
    ELSE LET size == IF chunk_size_tokens = 0 THEN CHUNK_SIZE_TOKENS ELSE chunk_size_tokens
             overlap == IF overlap_tokens = 0 THEN CHUNK_OVERLAP_TOKENS ELSE overlap_tokens
         IN  chunk_loop(split_text(doc_text, size, overlap), 0, url, title)

ChunkIds(chunks) == [i \in 1..Len(chunks) |-> chunks[i].chunk_id]

(***************************************************************************)
(* Calls of split_chunks in successive runs of the process.                *)
(***************************************************************************)
ChunkTexts ==
    { <<>>,
      <<" ", "\n">>,
      <<" ", "a", "\n", "b", " ">>,
      <<"a", " ", "b">>,
      Run("a", PREFIX_LEN) \o <<"x">>,
      Run("a", PREFIX_LEN) \o <<"y">>,
      Run("a", 1200),
      Run("b", 900) \o Run("a", 700),
      Run("a", PREFIX_LEN - 2),
      <<"0", "|">> \o Run("a", PREFIX_LEN - 2) }

ChunkUrls ==
    { UrlStr(Url(HTTP, <<"h">>, <<"/", "a">>)), UrlStr(Url(HTTP, <<"x">>, <<>>)),
      UrlStr(Url(HTTP, <<"h">>, <<"/", "a", "|", "0">>)) }

ChunkTitles == { <<>>, <<"T">> }

ChunkSizes == { <<0, 0>>, <<1000, 0>>, <<41, 1>> }

InitChunk ==
    /\ collections = NoCollections
    /\ clock = 0
    /\ hashSeed = 0
    /\ threads = NoThreads
    /\ last = [op |-> "start"]

SplitChunks ==
    /\ \E doc_text \in ChunkTexts, url \in ChunkUrls, title \in ChunkTitles,
          sz \in ChunkSizes :
          last' = [op |-> "split_chunks", doc_text |-> doc_text, url |-> url,
                   title |-> title, size |-> sz[1], overlap |-> sz[2],
                   seed |-> hashSeed,
                   out |-> split_chunks(doc_text, url, title, sz[1], sz[2])]
    /\ UNCHANGED <<collections, clock, hashSeed, threads>>

\* the process ends and a new one starts: the interpreter draws a new hash seed
Restart ==
    /\ \E seed \in 0..MaxSeed : seed # hashSeed /\ hashSeed' = seed
    /\ UNCHANGED <<collections, clock, last, threads>>

NextChunk == SplitChunks \/ Restart

SpecChunk == InitChunk /\ [][NextChunk]_vars

\* C3: the chunk_id depends only on (url, order, first 40 characters of the
\* trimmed chunk text): two chunks of two calls that agree on the three have the
\* same chunk_id; and two calls with the same url, document text, size and
\* overlap return the same sequence of chunk_ids, in any run of the process.
C3_ChunkIdsDeterministic ==
    [][(last.op = "split_chunks" /\ last'.op = "split_chunks") =>
          /\ \A i \in 1..Len(last.out), j \in 1..Len(last'.out) :
                (/\ last.out[i].url = last'.out[j].url
                 /\ last.out[i].order = last'.out[j].order
                 /\ Take(last.out[i].text, PREFIX_LEN) = Take(last'.out[j].text, PREFIX_LEN))
                => last.out[i].chunk_id = last'.out[j].chunk_id
          /\ (/\ last.url = last'.url
              /\ last.doc_text = last'.doc_text
              /\ last.size = last'.size
              /\ last.overlap = last'.overlap)
             => ChunkIds(last.out) = ChunkIds(last'.out)]_vars

\* the same document chunked in two runs of the process, into two chunks
C3_Witness ==
    /\ last.op = "split_chunks"
    /\ last.seed # 0
    /\ last.doc_text = Run("a", 1200)
    /\ Len(last.out) = 2
    /\ last.out[2].order = 1

(***************************************************************************)
(* embed_chunks (tools/embed_chunks.py).                                   *)
(***************************************************************************)
SetMin(S) == CHOOSE x \in S : \A y \in S : x <= y
SetMax(S) == CHOOSE x \in S : \A y \in S : x >= y

\* list.sort(key=...): stable, ascending in .key
InsertByKey(x, t) ==
    LET later == {i \in 1..Len(t) : t[i].key >= x.key}
        p == IF later = {} THEN Len(t) + 1 ELSE SetMin(later)
    IN  SubSeq(t, 1, p - 1) \o <<x>> \o SubSeq(t, p, Len(t))

RECURSIVE StableSort(_)
StableSort(s) == IF s = <<>> THEN <<>> ELSE InsertByKey(Head(s), StableSort(Tail(s)))

\* the vector the embedding backend computes for a text: a function of the
\* text, of unit length (here in units of 1/5)
CountIn(t, c) == Cardinality({i \in 1..Len(t) : t[i] = c})
Embedding(txt) ==
    LET a == CountIn(Take(txt, 8), "a")
        b == CountIn(Take(txt, 8), "b")
    IN  IF a > b THEN (IF b = 0 THEN <<5, 0>> ELSE <<4, 3>>)
        ELSE IF b > a THEN (IF a = 0 THEN <<0, 5>> ELSE <<3, 4>>)
        ELSE <<3, 4>>

\* _batched(seq, n): seq[i:i+n] for i = 0, n, 2n, ...
_batched(seq, n) ==
    [b \in 1..((Len(seq) + n - 1) \div n) |-> SubSeq(seq, (b - 1) * n + 1, Min(b * n, Len(seq)))]

\* items: (chunk_id, stripped text) of the chunks with non-empty text
EmbedItems(chunks) ==
    SelectAt([i \in 1..Len(chunks) |-> [cid |-> chunks[i].chunk_id, txt |-> Strip(chunks[i].text)]],
             {i \in 1..Len(chunks) : Strip(chunks[i].text) # <<>>}, 1)

BatchRecords(batch) ==
    [i \in 1..Len(batch) |-> [chunk_id |-> batch[i].cid, embedding |-> Embedding(batch[i].txt)]]

\* a rate limit or timeout treated like any other API error: the batch is given up
embed_attempts_no_retry(batch, script, attempt, backoff, waits) ==
    IF script[1] = "ok"
    THEN [records |-> BatchRecords(batch), calls |-> 1, waits |-> waits]
    ELSE [records |-> <<>>, calls |-> 1, waits |-> waits]

\* the attempts on one batch: script gives the outcome of each
\* client.embeddings.create in turn ("ok", "rate", "timeout", "api")
RECURSIVE embed_attempts(_, _, _, _, _)
embed_attempts(batch, script, attempt, backoff, waits) ==
    IF ~(attempt < MAX_RETRIES + 1)
    THEN [records |-> <<>>, calls |-> attempt, waits |-> waits]
    ELSE LET a == attempt + 1
             o == script[a]
         IN  IF o = "ok"
             THEN [records |-> BatchRecords(batch), calls |-> a, waits |-> waits]
             ELSE IF o \in {"rate", "timeout"}
             THEN IF a < MAX_RETRIES + 1
                  THEN embed_attempts(batch, script, a, backoff * 2, Append(waits, backoff))
                  ELSE [records |-> <<>>, calls |-> a, waits |-> waits]
             ELSE [records |-> <<>>, calls |-> a, waits |-> waits]

\* order_map = {chunk_id: i}: the last position of the id among the chunks
OrderMap(chunks, cid) == SetMax({i \in 1..Len(chunks) : chunks[i].chunk_id = cid})

SortByInput(chunks, outputs) ==
    LET keyed == StableSort([i \in 1..Len(outputs) |->
                     [key |-> OrderMap(chunks, outputs[i].chunk_id), rec |-> outputs[i]]])
    IN  [i \in 1..Len(keyed) |-> keyed[i].rec]

\* calls: for each batch, the requests made for it and the waits between them
EmbedReturn(value, calls) ==
    [raised |-> FALSE, value |-> value, calls |-> calls]

RECURSIVE embed_batches(_, _, _, _, _)
\* the call given up at the first batch that fails
embed_batches_stop_at_failure(batches, env, b, outputs, calls) ==
    IF b > Len(batches) THEN [outputs |-> outputs, calls |-> calls]
    ELSE IF env.provider = "sentencetransformers"
    THEN embed_batches(batches, env, b + 1, outputs \o BatchRecords(batches[b]),
                       calls \o <<[calls |-> 1, waits |-> <<>>]>>)
    ELSE LET r == embed_attempts(batches[b], env.script[b], 0, 1, <<>>)
         IN  IF r.records = <<>>
             THEN [outputs |-> outputs,
                   calls |-> calls \o <<[calls |-> r.calls, waits |-> r.waits]>>]
             ELSE embed_batches(batches, env, b + 1, outputs \o r.records,
                                calls \o <<[calls |-> r.calls, waits |-> r.waits]>>)

embed_batches(batches, env, b, outputs, calls) ==
    IF b > Len(batches) THEN [outputs |-> outputs, calls |-> calls]
    ELSE IF env.provider = "sentencetransformers"
    THEN embed_batches(batches, env, b + 1, outputs \o BatchRecords(batches[b]),
                       calls \o <<[calls |-> 1, waits |-> <<>>]>>)
    ELSE LET r == embed_attempts(batches[b], env.script[b], 0, 1, <<>>)
         IN  embed_batches(batches, env, b + 1, outputs \o r.records,
                           calls \o <<[calls |-> r.calls, waits |-> r.waits]>>)

\* env.provider: SETTINGS.EMBEDDINGS_PROVIDER; env.script[b]: the outcomes of
\* the requests made for batch b
embed_chunks(chunks, batch_size, env) ==
    IF chunks = <<>> THEN EmbedReturn(<<>>, <<>>)
    ELSE IF EmbedItems(chunks) = <<>> THEN EmbedReturn(<<>>, <<>>)
    ELSE LET r == embed_batches(_batched(EmbedItems(chunks), batch_size), env, 1, <<>>, <<>>)
         IN  EmbedReturn(SortByInput(chunks, r.outputs), r.calls)

(***************************************************************************)
(* Calls of embed_chunks on every chunk list and every backend script.     *)
(***************************************************************************)
EmbedChunk(id, text) ==
    [chunk_id |-> _hash_id(id), text |-> text, url |-> <<"u">>, title |-> <<>>, order |-> 0]

EmbedPool ==
    { EmbedChunk(<<"x">>, <<"a">>),
      EmbedChunk(<<"y">>, <<" ", "b">>),
      EmbedChunk(<<"x">>, <<"b", "b">>),
      EmbedChunk(<<"z">>, <<" ">>) }

BatchScripts ==
    { <<"ok">>, <<"rate", "timeout", "ok">>, <<"timeout", "rate", "rate">>, <<"rate", "api">> }

EmbedEnvs ==
    { [provider |-> "sentencetransformers", script |-> <<>>] }
    \cup { [provider |-> "openai", script |-> sc] : sc \in [1..MaxEmbed -> BatchScripts] }

InitEmbed ==
    /\ collections = NoCollections
    /\ clock = 0
    /\ hashSeed = 0
    /\ threads = NoThreads
    /\ \E chunks \in SeqsUpTo(EmbedPool, MaxEmbed), batch_size \in 1..2, env \in EmbedEnvs :
          last = [op |-> "embed_chunks", done |-> FALSE, chunks |-> chunks,
                  batch_size |-> batch_size, env |-> env]

EmbedChunks ==
    /\ last.op = "embed_chunks" /\ ~last.done
    /\ last' = [op |-> "embed_chunks", done |-> TRUE, chunks |-> last.chunks,
                batch_size |-> last.batch_size, env |-> last.env,
                out |-> embed_chunks(last.chunks, last.batch_size, last.env)]
    /\ UNCHANGED <<collections, clock, hashSeed, threads>>

NextEmbed == EmbedChunks

SpecEmbed == InitEmbed /\ [][NextEmbed]_vars

\* a batch succeeds when a request for it succeeds within MAX_RETRIES + 1
\* attempts, every earlier one having hit a rate limit or a timeout
BatchSucceeds(env, b) ==
    \/ env.provider = "sentencetransformers"
    \/ \E a \in 1..Min(Len(env.script[b]), MAX_RETRIES + 1) :
          /\ env.script[b][a] = "ok"
          /\ \A i \in 1..(a - 1) : env.script[b][i] \in {"rate", "timeout"}

NonEmptyAt(chunks) == {i \in 1..Len(chunks) : Strip(chunks[i].text) # <<>>}

\* the batch of the chunk at position i: batches are cut from the chunks with
\* non-empty text, batch_size at a time
BatchOf(chunks, batch_size, i) ==
    ((Cardinality({j \in NonEmptyAt(chunks) : j < i})) \div batch_size) + 1

\* the records of the non-empty chunks of the batches that succeeded, in the
\* order of the input list
SurvivingRecords(chunks, batch_size, env) ==
    LET keep == {i \in NonEmptyAt(chunks) : BatchSucceeds(env, BatchOf(chunks, batch_size, i))}
    IN  SelectAt([i \in 1..Len(chunks) |->
                     [chunk_id |-> chunks[i].chunk_id,
                      embedding |-> Embedding(Strip(chunks[i].text))]], keep, 1)

\* some batch of the call is given up: its retries run out, or an API error
SomeBatchFails(chunks, batch_size, env) ==
    \E i \in NonEmptyAt(chunks) : ~BatchSucceeds(env, BatchOf(chunks, batch_size, i))

DistinctIds(chunks) ==
    \A i, j \in 1..Len(chunks) : i # j => chunks[i].chunk_id # chunks[j].chunk_id

\* C4 (as amended): if one or more batches fail permanently, embed_chunks does
\* not raise and returns exactly the records of the non-empty-text chunks of the
\* batches that succeeded, in the order of the input chunk list, provided the
\* chunk_ids of the input list are pairwise distinct.
C4_PartialFailureDistinctIds ==
    (/\ last.op = "embed_chunks" /\ last.done
     /\ SomeBatchFails(last.chunks, last.batch_size, last.env)
     /\ DistinctIds(last.chunks)) =>
        /\ ~last.out.raised
        /\ last.out.value = SurvivingRecords(last.chunks, last.batch_size, last.env)

\* C4 (as stated): ... for every input chunk list.
C4_PartialFailure ==
    (/\ last.op = "embed_chunks" /\ last.done
     /\ SomeBatchFails(last.chunks, last.batch_size, last.env)) =>
        /\ ~last.out.raised
        /\ last.out.value = SurvivingRecords(last.chunks, last.batch_size, last.env)

\* two batches, the first given up after its retries, the second embedded
C4_Witness ==
    /\ last.op = "embed_chunks" /\ last.done
    /\ last.env.provider = "openai"
    /\ last.batch_size = 1
    /\ DistinctIds(last.chunks)
    /\ Len(last.chunks) = 3
    /\ last.env.script[1] = <<"timeout", "rate", "rate">>
    /\ last.env.script[2] = <<"rate", "timeout", "ok">>
    /\ Len(last.out.value) = 1
    /\ last.out.value[1].chunk_id = last.chunks[2].chunk_id

(***************************************************************************)
(* synthesize_answer (tools/synthesize_answer.py).  An LLM environment     *)
(* gives SETTINGS.LLM_PROVIDER and the outcome of each request to the      *)
(* language backend in turn: an exception, or a response with its status   *)
(* and text.                                                               *)
(***************************************************************************)
SYNTH_NO_CONTEXT ==
    <<"I don't have any supporting context yet. Try ingesting more sources for this topic.">>

LResp(status, content) == [kind |-> "resp", status |-> status, content |-> content]

\* SETTINGS.LLM_PROVIDER.lower().strip()
ProviderName(p) ==
    CASE p = "OpenAI " -> "openai" [] p = "Ollama" -> "ollama" [] OTHER -> p

\* citations without the seen-set: one per context that has a URL
RECURSIVE _cite_every_context(_, _, _)
_cite_every_context(ctxs, seen, out) ==
    IF ctxs = <<>> THEN out
    ELSE LET u == Strip(Head(ctxs).url)
             t == Strip(Head(ctxs).title)
         IN  IF u = <<>>
             THEN _cite_every_context(Tail(ctxs), seen, out)
             ELSE _cite_every_context(Tail(ctxs), seen \cup {u},
                                      Append(out, [url |-> u, title |-> t]))

RECURSIVE _dedupe_urls(_, _, _)
_dedupe_urls(ctxs, seen, out) ==
    IF ctxs = <<>> THEN out
    ELSE LET u == Strip(Head(ctxs).url)
             t == Strip(Head(ctxs).title)
         IN  IF u = <<>> \/ u \in seen
             THEN _dedupe_urls(Tail(ctxs), seen, out)
             ELSE _dedupe_urls(Tail(ctxs), seen \cup {u}, Append(out, [url |-> u, title |-> t]))

LlmRaise(calls) == [raised |-> TRUE, content |-> <<>>, calls |-> calls]
LlmContent(content, calls) == [raised |-> FALSE, content |-> Strip(content), calls |-> calls]

\* the request(s) to the language backend of the configured provider
llm_complete(llm) ==
    LET provider == ProviderName(llm.provider)
        r1 == llm.script[1]
        r2 == llm.script[2]
    IN  IF provider \in {"openai", "groq"}
        THEN IF r1.kind = "exc" THEN LlmRaise(1) ELSE LlmContent(r1.content, 1)
        ELSE IF provider = "ollama"
        THEN IF r1.kind = "exc" THEN LlmRaise(1)
             ELSE IF r1.status = 404
             THEN IF r2.kind = "exc" THEN LlmRaise(2)
                  ELSE IF r2.status >= 400 THEN LlmRaise(2)
                  ELSE LlmContent(r2.content, 2)
             ELSE IF r1.status >= 400 THEN LlmRaise(1)
             ELSE LlmContent(r1.content, 1)
        ELSE LlmRaise(0)

SynthReturn(raised, content, citations, llm_calls) ==
    [raised |-> raised, value |-> [content |-> content, citations |-> citations],
     llm_calls |-> llm_calls]

synthesize_answer(question, contexts, llm) ==
    IF contexts = <<>> THEN SynthReturn(FALSE, SYNTH_NO_CONTEXT, <<>>, 0)
    ELSE LET r == llm_complete(llm)
         IN  IF r.raised THEN SynthReturn(TRUE, <<>>, <<>>, r.calls)
             ELSE SynthReturn(FALSE, r.content, _dedupe_urls(contexts, {}, <<>>), r.calls)

(***************************************************************************)
(* Calls of synthesize_answer on every list of contexts and every outcome  *)
(* of the language backend.                                                *)
(***************************************************************************)
Context(url, title) == [text |-> <<"t">>, url |-> url, title |-> title, score |-> 0]

ContextPool ==
    { Context(<<"A">>, <<"T", "1">>),
      Context(<<"A">>, <<"T", "2">>),
      Context(<<"B">>, <<" ", "T", "3">>),
      Context(<<"C">>, <<>>),
      Context(<<" ", "A">>, <<"T", "4">>),
      Context(<<>>, <<"T", "5">>) }

LlmEnvs ==
    { [provider |-> "openai", script |-> <<LResp(200, <<"o", "k", " ">>), Exc>>],
      [provider |-> "OpenAI ", script |-> <<Exc, Exc>>],
      [provider |-> "groq", script |-> <<LResp(200, <<"g">>), Exc>>],
      [provider |-> "ollama", script |-> <<LResp(200, <<"l">>), Exc>>],
      [provider |-> "ollama", script |-> <<LResp(404, <<>>), LResp(200, <<" ", "m">>)>>],
      [provider |-> "Ollama", script |-> <<LResp(404, <<>>), LResp(500, <<>>)>>],
      [provider |-> "gemini", script |-> <<Exc, Exc>>] }

Questions == { <<>>, <<" ">>, <<"a">> }

InitSynth ==
    /\ collections = NoCollections
    /\ clock = 0
    /\ hashSeed = 0
    /\ threads = NoThreads
    /\ \E contexts \in SeqsUpTo(ContextPool, MaxCtx), llm \in LlmEnvs :
          last = [op |-> "synthesize_answer", done |-> FALSE, question |-> <<"a">>,
                  contexts |-> contexts, llm |-> llm]

SynthesizeAnswer ==
    /\ last.op = "synthesize_answer" /\ ~last.done
    /\ last' = [op |-> "synthesize_answer", done |-> TRUE, question |-> last.question,
                contexts |-> last.contexts, llm |-> last.llm,
                out |-> synthesize_answer(last.question, last.contexts, last.llm)]
    /\ UNCHANGED <<collections, clock, hashSeed, threads>>

NextSynth == SynthesizeAnswer

SpecSynth == InitSynth /\ [][NextSynth]_vars

\* one {url, title} per distinct URL at the positions cited, in order of first
\* appearance, with the title of that first appearance
CitationsOf(url, title, cited) ==
    SelectAt([i \in 1..Len(url) |-> [url |-> url[i], title |-> title[i]]],
             {i \in 1..Len(url) : i \in cited /\ \A j \in 1..(i - 1) : url[j] # url[i]}, 1)

RawUrls(ctxs) == [i \in 1..Len(ctxs) |-> ctxs[i].url]
RawTitles(ctxs) == [i \in 1..Len(ctxs) |-> ctxs[i].title]
TrimmedUrls(ctxs) == [i \in 1..Len(ctxs) |-> Strip(ctxs[i].url)]
TrimmedTitles(ctxs) == [i \in 1..Len(ctxs) |-> Strip(ctxs[i].title)]

\* C9 as stated: the citations returned by synthesize_answer contain each
\* distinct URL of the contexts exactly once, in order of first appearance, with
\* the title of that first appearance, whatever the generated text.
C9_CitationsEachDistinctUrl ==
    (last.op = "synthesize_answer" /\ last.done /\ ~last.out.raised) =>
        last.out.value.citations =
            CitationsOf(RawUrls(last.contexts), RawTitles(last.contexts),
                        1..Len(last.contexts))

\* C9: the citations returned by synthesize_answer contain each distinct
\* non-empty URL of the contexts, compared and returned with surrounding
\* whitespace trimmed, exactly once, in order of first appearance, with the
\* trimmed title of that first appearance; contexts whose URL is empty or blank
\* are not cited; the list is a function of the contexts alone.
C9_CitationsEachDistinctTrimmedUrl ==
    (last.op = "synthesize_answer" /\ last.done /\ ~last.out.raised) =>
        last.out.value.citations =
            CitationsOf(TrimmedUrls(last.contexts), TrimmedTitles(last.contexts),
                        {i \in 1..Len(last.contexts) : Strip(last.contexts[i].url) # <<>>})

\* contexts with URLs [A, B, A, C] cited as [A, B, C], A with its first title
C9_Witness ==
    /\ last.op = "synthesize_answer" /\ last.done /\ ~last.out.raised
    /\ RawUrls(last.contexts) = << <<"A">>, <<"B">>, <<"A">>, <<"C">> >>
    /\ last.contexts[1].title # last.contexts[3].title
    /\ last.out.llm_calls = 2
    /\ [i \in 1..3 |-> last.out.value.citations[i].url] = << <<"A">>, <<"B">>, <<"C">> >>
    /\ last.out.value.citations[1].title = last.contexts[1].title

(***************************************************************************)
(* The vector store (chromadb.PersistentClient): collections by name, each *)
(* a map from record id to the embedding, document and metadata stored.    *)
(***************************************************************************)
CHROMA_COLLECTION_PREFIX == <<"r", "e", "s", "e", "a", "r", "c", "h", "_">>
RETRIEVAL_TOP_K == 2

\* the value of a key a record lacks
None == <<"None">>

EmptyCollection == [id \in {} |-> None]

\* client.get_collection(name) finds the collection (it raises otherwise)
HasCollection(store, name) == name \in DOMAIN store

get_or_create_collection(store, name) ==
    IF name \in DOMAIN store THEN store
    ELSE [n \in DOMAIN store \cup {name} |-> IF n = name THEN EmptyCollection ELSE store[n]]

\* a write that replaces the content of the collection
collection_replace(col, ids, embeddings, documents, metadatas) ==
    [id \in Range(ids) |->
        LET i == CHOOSE i \in 1..Len(ids) : ids[i] = id
        IN  [embedding |-> embeddings[i], document |-> documents[i],
             metadata |-> metadatas[i]]]

\* collection.upsert: the record of each id is written, replacing the one stored
collection_upsert(col, ids, embeddings, documents, metadatas) ==
    [id \in DOMAIN col \cup Range(ids) |->
        IF id \in Range(ids)
        THEN LET i == CHOOSE i \in 1..Len(ids) : ids[i] = id
             IN  [embedding |-> embeddings[i], document |-> documents[i],
                  metadata |-> metadatas[i]]
        ELSE col[id]]

\* the number of records of a collection, 0 when there is none
collection_count(store, name) ==
    IF name \in DOMAIN store THEN Cardinality(DOMAIN store[name]) ELSE 0

(***************************************************************************)
(* upsert_vectors (tools/upsert_vectors.py).  A record id is the digest of *)
(* a chunk or a given string.                                              *)
(***************************************************************************)
RawId(s) == [kind |-> "raw", s |-> s]

\* one collection for every namespace
_collection_name_shared(namespace) == CHROMA_COLLECTION_PREFIX

_collection_name(namespace) == Strip(CHROMA_COLLECTION_PREFIX \o namespace)

\* str(r.get("id", "")).strip(): a hex digest has no whitespace to strip
RecordId(r) == IF r.id.kind = "raw" THEN RawId(Strip(r.id.s)) ELSE r.id

ValidRecord(r) ==
    /\ RecordId(r).s # <<>>
    /\ r.embedding # None
    /\ Strip(r.document) # <<>>

UpsertReturn(store, raised, count) ==
    [store |-> store, raised |-> raised, value |-> [count_upserted |-> count]]

\* the call given up at the first malformed record
upsert_vectors_all_or_nothing(store, namespace, records) ==
    IF namespace = <<>> THEN UpsertReturn(store, TRUE, 0)
    ELSE IF records = <<>> THEN UpsertReturn(store, FALSE, 0)
    ELSE LET col_name == _collection_name(namespace)
             created == get_or_create_collection(store, col_name)
             ids == [i \in 1..Len(records) |-> RecordId(records[i])]
         IN  IF \E i \in 1..Len(records) : ~ValidRecord(records[i])
             THEN UpsertReturn(created, FALSE, 0)
             ELSE IF Cardinality(Range(ids)) < Len(ids) THEN UpsertReturn(created, TRUE, 0)
             ELSE UpsertReturn(
                    [created EXCEPT ![col_name] =
                        collection_upsert(@, ids,
                            [i \in 1..Len(records) |-> records[i].embedding],
                            [i \in 1..Len(records) |-> Strip(records[i].document)],
                            [i \in 1..Len(records) |-> records[i].metadata])],
                    FALSE, Len(ids))

\* raised: ValueError for a missing namespace, or the store's refusal of a
\* batch that repeats an id
upsert_vectors(store, namespace, records) ==
    IF namespace = <<>> THEN UpsertReturn(store, TRUE, 0)
    ELSE IF records = <<>> THEN UpsertReturn(store, FALSE, 0)
    ELSE LET col_name == _collection_name(namespace)
             created == get_or_create_collection(store, col_name)
             valid == SelectAt(records, {i \in 1..Len(records) : ValidRecord(records[i])}, 1)
             ids == [i \in 1..Len(valid) |-> RecordId(valid[i])]
         IN  IF ids = <<>> THEN UpsertReturn(created, FALSE, 0)
             ELSE IF Cardinality(Range(ids)) < Len(ids) THEN UpsertReturn(created, TRUE, 0)
             ELSE UpsertReturn(
                    [created EXCEPT ![col_name] =
                        collection_upsert(@, ids,
                            [i \in 1..Len(valid) |-> valid[i].embedding],
                            [i \in 1..Len(valid) |-> Strip(valid[i].document)],
                            [i \in 1..Len(valid) |-> valid[i].metadata])],
                    FALSE, Len(ids))

(***************************************************************************)
(* retrieve_context (tools/retrieve_context.py).  Vectors have length 5,   *)
(* so that distances and scores are in units of 1/25.                      *)
(***************************************************************************)
ONE == 25

Dot(q, v) == q[1] * v[1] + q[2] * v[2]

\* the cosine distance of the store, 1 - cos
CosineDistance(q, v) == ONE - Dot(q, v)

\* env.provider: SETTINGS.EMBEDDINGS_PROVIDER; env.query: the outcome of the
\* request that embeds the question
_embed_query(text, env) ==
    IF Strip(text) = <<>> THEN [raised |-> FALSE, value |-> <<>>, calls |-> 0]
    ELSE IF env.provider = "sentencetransformers"
    THEN [raised |-> FALSE, value |-> Embedding(Strip(text)), calls |-> 1]
    ELSE IF env.query = "ok"
    THEN [raised |-> FALSE, value |-> Embedding(Strip(text)), calls |-> 1]
    ELSE [raised |-> TRUE, value |-> <<>>, calls |-> 1]

\* collection.query(n_results = n): the ids of the min(n, count) records
\* nearest to qvec, nearest first; records at equal distance come in any order
collection_query(col, qvec, n) ==
    LET m == Min(n, Cardinality(DOMAIN col))
        D(id) == CosineDistance(qvec, col[id].embedding)
    IN  { r \in [1..m -> DOMAIN col] :
            /\ \A i, j \in 1..m : i < j => (r[i] # r[j] /\ D(r[i]) <= D(r[j]))
            /\ \A id \in DOMAIN col \ Range(r) : \A i \in 1..m : D(r[i]) <= D(id) }

MetaGet(meta, key) == IF key \in DOMAIN meta THEN meta[key] ELSE <<>>

\* out.sort(key=score, reverse=True): stable
SortByScore(out) ==
    LET keyed == StableSort([i \in 1..Len(out) |-> [key |-> 0 - out[i].score, rec |-> out[i]]])
    IN  [i \in 1..Len(keyed) |-> keyed[i].rec]

RetrieveReturn(raised, value, embed_calls, queries) ==
    [raised |-> raised, value |-> value, embed_calls |-> embed_calls, queries |-> queries]

\* the contexts in the order farthest first
RetrievedContexts_farthest_first(col, qvec, r) ==
    LET out == SortByScore([i \in 1..Len(r) |->
                  [text |-> col[r[i]].document,
                   url |-> MetaGet(col[r[i]].metadata, "url"),
                   title |-> MetaGet(col[r[i]].metadata, "title"),
                   score |-> ONE - CosineDistance(qvec, col[r[i]].embedding)]])
    IN  [i \in 1..Len(out) |-> out[Len(out) + 1 - i]]

RetrievedContexts(col, qvec, r) ==
    SortByScore([i \in 1..Len(r) |->
        [text |-> col[r[i]].document,
         url |-> MetaGet(col[r[i]].metadata, "url"),
         title |-> MetaGet(col[r[i]].metadata, "title"),
         score |-> ONE - CosineDistance(qvec, col[r[i]].embedding)]])

\* the question embedded before the collection is looked up
retrieve_context_embed_first(store, namespace, question, top_k, env) ==
    IF namespace = <<>> \/ question = <<>> THEN {RetrieveReturn(FALSE, <<>>, 0, 0)}
    ELSE LET k == IF top_k = 0 THEN RETRIEVAL_TOP_K ELSE top_k
             col_name == _collection_name(namespace)
             q == _embed_query(question, env)
         IN  IF q.raised THEN {RetrieveReturn(TRUE, <<>>, q.calls, 0)}
             ELSE IF ~HasCollection(store, col_name)
             THEN {RetrieveReturn(FALSE, <<>>, q.calls, 0)}
             ELSE IF q.value = <<>> THEN {RetrieveReturn(FALSE, <<>>, q.calls, 0)}
             ELSE { RetrieveReturn(FALSE, RetrievedContexts(store[col_name], q.value, r),
                                   q.calls, 1)
                    : r \in collection_query(store[col_name], q.value, Max(1, k)) }

\* the set of outcomes the call can have; 0 stands for top_k left at None
retrieve_context(store, namespace, question, top_k, env) ==
    IF namespace = <<>> \/ question = <<>> THEN {RetrieveReturn(FALSE, <<>>, 0, 0)}
    ELSE LET k == IF top_k = 0 THEN RETRIEVAL_TOP_K ELSE top_k
             col_name == _collection_name(namespace)
         IN  IF ~HasCollection(store, col_name) THEN {RetrieveReturn(FALSE, <<>>, 0, 0)}
             ELSE LET q == _embed_query(question, env)
                      col == store[col_name]
                  IN  IF q.raised THEN {RetrieveReturn(TRUE, <<>>, q.calls, 0)}
                      ELSE IF q.value = <<>> THEN {RetrieveReturn(FALSE, <<>>, q.calls, 0)}
                      ELSE { RetrieveReturn(FALSE, RetrievedContexts(col, q.value, r),
                                            q.calls, 1)
                             : r \in collection_query(col, q.value, Max(1, k)) }

(***************************************************************************)
(* answer_question (pipelines/qa.py).                                      *)
(***************************************************************************)
QA_NO_CONTEXT ==
    <<"I couldn't find relevant context in this namespace. Try ingesting more sources or re-ingesting with --force.">>

\* retrieval: the outcome of retrieve_context; delegated: synthesize_answer
\* was called
AnswerReturn(raised, content, citations, retrieval, delegated, llm_calls) ==
    [raised |-> raised, value |-> [content |-> content, citations |-> citations],
     retrieval |-> retrieval, delegated |-> delegated, llm_calls |-> llm_calls]

\* synthesis asked for whatever the retrieval gives
answer_of_always_synthesized(question, r, llm) ==
    IF r.raised THEN AnswerReturn(TRUE, <<>>, <<>>, r, FALSE, 0)
    ELSE LET a == synthesize_answer(question, r.value, llm)
         IN  AnswerReturn(a.raised, a.value.content, a.value.citations, r, TRUE, a.llm_calls)

\* the answer built on one outcome r of the retrieval
answer_of(question, r, llm) ==
    IF r.raised THEN AnswerReturn(TRUE, <<>>, <<>>, r, FALSE, 0)
    ELSE IF r.value = <<>>
    THEN AnswerReturn(FALSE, QA_NO_CONTEXT, <<>>, r, FALSE, 0)
    ELSE LET a == synthesize_answer(question, r.value, llm)
         IN  AnswerReturn(a.raised, a.value.content, a.value.citations, r, TRUE, a.llm_calls)

\* the set of outcomes the call can have; 0 stands for top_k left at None
answer_question(store, question, namespace, top_k, env, llm) ==
    LET k == IF top_k = 0 THEN RETRIEVAL_TOP_K ELSE top_k
    IN  { answer_of(question, r, llm)
          : r \in retrieve_context(store, namespace, question, k, env) }

(***************************************************************************)
(* slugify (utils/common.py), on ASCII text.                               *)
(***************************************************************************)
SLUG_MAXLEN == 60

AlnumChars ==
    {"a", "b", "c", "d", "e", "f", "g", "h", "i", "j", "k", "l", "m", "n", "o", "p", "q",
     "r", "s", "t", "u", "v", "w", "x", "y", "z",
     "A", "B", "C", "D", "E", "F", "G", "H", "I", "J", "K", "L", "M", "N", "O", "P", "Q",
     "R", "S", "T", "U", "V", "W", "X", "Y", "Z",
     "0", "1", "2", "3", "4", "5", "6", "7", "8", "9"}

\* re.sub(r"[^a-zA-Z0-9]+", "-", text)
RECURSIVE Dashed(_, _)
Dashed(s, inRun) ==
    IF s = <<>> THEN <<>>
    ELSE IF Head(s) \in AlnumChars THEN <<Head(s)>> \o Dashed(Tail(s), FALSE)
    ELSE (IF inRun THEN <<>> ELSE <<"-">>) \o Dashed(Tail(s), TRUE)

\* str.strip("-")
RECURSIVE StripDashes(_)
StripDashes(s) ==
    IF s # <<>> /\ Head(s) = "-" THEN StripDashes(Tail(s))
    ELSE IF s # <<>> /\ s[Len(s)] = "-" THEN StripDashes(SubSeq(s, 1, Len(s) - 1))
    ELSE s

slugify(text) ==
    LET t == Take(Lower(StripDashes(Dashed(text, FALSE))), SLUG_MAXLEN)
    IN  IF t = <<>> THEN <<"t", "o", "p", "i", "c">> ELSE t

(***************************************************************************)
(* extract_readable_text (tools/extract_readable_text.py).  The markup is  *)
(* parsed by BeautifulSoup; a page is given here by what the parse finds:  *)
(* its title and the paragraphs of its best content node.                  *)
(***************************************************************************)
ParsedPage(title, paragraphs) == [title |-> title, paragraphs |-> paragraphs]

ParseHtml(html) ==
    CASE html = "page_a" -> ParsedPage(<<"T", "a">>, <<Run("a", 1200)>>)
      [] html = "page_b" -> ParsedPage(<<" ", "T", "b">>, <<Run("b", 1250)>>)
      [] html = "page_short" -> ParsedPage(<<"T", "s">>, <<Run("a", 1199)>>)
      [] html = "page_padded" ->
            ParsedPage(<<"T", "p">>,
                       <<Run("b", 680) \o Run("\f", 482) \o Run("c", PREFIX_LEN - 2)>>)
      [] html = "page_prefixed" ->
            ParsedPage(<<"T", "c">>,
                       <<(<<"1", "|">> \o Run("c", PREFIX_LEN - 2)) \o Run("a", 1160)>>)
      [] html = "page_head" ->
            ParsedPage(<<>>, <<Run("H", 31), <<"x">>, Run("a", 1199)>>)
      [] OTHER -> ParsedPage(<<>>, <<>>)

RECURSIVE JoinWith(_, _)
JoinWith(parts, sep) ==
    IF parts = <<>> THEN <<>>
    ELSE IF Len(parts) = 1 THEN parts[1]
    ELSE parts[1] \o sep \o JoinWith(Tail(parts), sep)

SiteNameChars == AlnumChars \cup {"-", "|", ":", " "}

\* one leading line of 1 to 80 site-name characters, with its newline, dropped
DropSiteNameLine(s) ==
    LET nl == {i \in 1..Min(81, Len(s)) : s[i] = "\n"}
        p == IF nl = {} THEN 0 ELSE SetMin(nl)
    IN  IF p >= 2 /\ \A i \in 1..(p - 1) : s[i] \in SiteNameChars
        THEN [dropped |-> TRUE, text |-> SubSeq(s, p + 1, Len(s))]
        ELSE [dropped |-> FALSE, text |-> s]

\* re.sub(r"^\s*(?:[A-Za-z0-9\-\|: ]{1,80}\n){0,2}", "", main_text)
DropSiteNameLines(s) ==
    LET t == LStrip(s)
        first == DropSiteNameLine(t)
    IN  IF first.dropped THEN DropSiteNameLine(first.text).text ELSE t

extract_readable_text(html, url) ==
    IF html = "" THEN [url |-> url, title |-> <<>>, text |-> <<>>]
    ELSE LET page == ParseHtml(html)
             texts == [i \in 1..Len(page.paragraphs) |-> Strip(page.paragraphs[i])]
             long == SelectAt(texts, {i \in 1..Len(texts) : Len(texts[i]) > 30}, 1)
             parts == IF long = <<>> THEN <<Strip(JoinWith(texts, <<" ">>))>> ELSE long
             main_text == Strip(JoinWith(parts, <<"\n", "\n">>))
         IN  [url |-> url, title |-> Strip(page.title),
              text |-> IF main_text = <<>> THEN <<>> ELSE DropSiteNameLines(main_text)]

(***************************************************************************)
(* ingest_topic (pipelines/ingest.py).  The environment of a run gives the *)
(* search backend, the script of each page, and the embedding backend.     *)
(***************************************************************************)
MAX_PAGES_TO_SCRAPE == 2
MAX_TOTAL_CHUNKS == 3
_MIN_TEXT_LEN == 1200
INGEST_BATCH_SIZE == 64

\* the gate that keeps only the texts longer than the minimum
_quality_filter_strict(doc) == Len(doc.text) > _MIN_TEXT_LEN

_quality_filter(doc) == Len(doc.text) >= _MIN_TEXT_LEN

\* the script of the requests for a URL; a host nobody answers otherwise
FetchScriptOf(env, url) ==
    IF UrlStr(url) \in DOMAIN env.fetch THEN env.fetch[UrlStr(url)]
    ELSE [i \in 1..(MAX_RETRIES + 1) |-> Exc]

RECURSIVE fetch_docs(_, _, _, _, _)
\* a page under the quality gate left out without being counted
fetch_docs_gate_uncounted(hits, env, i, docs, skipped) ==
    IF i > Len(hits) THEN [docs |-> docs, skipped |-> skipped]
    ELSE LET r == fetch_page(hits[i].url, FetchScriptOf(env, hits[i].url)).value
         IN  IF r.status # 200 \/ r.html = ""
             THEN fetch_docs(hits, env, i + 1, docs, skipped + 1)
             ELSE LET doc == extract_readable_text(r.html, r.url)
                  IN  IF ~_quality_filter(doc)
                      THEN fetch_docs(hits, env, i + 1, docs, skipped)
                      ELSE fetch_docs(hits, env, i + 1, Append(docs, doc), skipped)

fetch_docs(hits, env, i, docs, skipped) ==
    IF i > Len(hits) THEN [docs |-> docs, skipped |-> skipped]
    ELSE LET r == fetch_page(hits[i].url, FetchScriptOf(env, hits[i].url)).value
         IN  IF r.status # 200 \/ r.html = ""
             THEN fetch_docs(hits, env, i + 1, docs, skipped + 1)
             ELSE LET doc == extract_readable_text(r.html, r.url)
                  IN  IF ~_quality_filter(doc)
                      THEN fetch_docs(hits, env, i + 1, docs, skipped + 1)
                      ELSE fetch_docs(hits, env, i + 1, Append(docs, doc), skipped)

RECURSIVE chunk_docs(_)
chunk_docs(docs) ==
    IF docs = <<>> THEN <<>>
    ELSE split_chunks(Head(docs).text, UrlStr(Head(docs).url), Head(docs).title, 0, 0)
         \o chunk_docs(Tail(docs))

\* by_id = {chunk_id: embedding}: the last embedding of an id
HasEmbedding(vecs, cid) == \E i \in 1..Len(vecs) : vecs[i].chunk_id = cid
ById(vecs, cid) == vecs[SetMax({i \in 1..Len(vecs) : vecs[i].chunk_id = cid})].embedding

\* records whose id takes in the time of the run
IngestRecords_dated(chunks, vecs, ts) ==
    LET with == SelectAt(chunks, {i \in 1..Len(chunks) : HasEmbedding(vecs, chunks[i].chunk_id)}, 1)
    IN  [i \in 1..Len(with) |->
            [id |-> _hash_id(with[i].chunk_id.s \o <<"|">> \o IntStr(ts)),
             embedding |-> ById(vecs, with[i].chunk_id),
             document |-> with[i].text,
             metadata |-> [url |-> with[i].url, title |-> with[i].title,
                           order |-> with[i].order, added_at |-> ts]]]

IngestRecords(chunks, vecs, ts) ==
    LET with == SelectAt(chunks, {i \in 1..Len(chunks) : HasEmbedding(vecs, chunks[i].chunk_id)}, 1)
    IN  [i \in 1..Len(with) |->
            [id |-> with[i].chunk_id,
             embedding |-> ById(vecs, with[i].chunk_id),
             document |-> with[i].text,
             metadata |-> [url |-> with[i].url, title |-> with[i].title,
                           order |-> with[i].order, added_at |-> ts]]]

\* the stages of a run that read neither the store nor the clock, each handed
\* the result of the one before: search, fetch and extract, chunk and cap, embed
NoStages ==
    [searched |-> FALSE, k |-> 0, num |-> 0, hits |-> <<>>, fetched |-> FALSE, docs |-> <<>>,
     skipped |-> 0, chunked |-> FALSE, chunks |-> <<>>, embedded |-> FALSE, vecs |-> <<>>]

stages_embed(st, chunks, env) ==
    [st EXCEPT !.chunks = chunks, !.embedded = TRUE,
               !.vecs = embed_chunks(chunks, INGEST_BATCH_SIZE, env.embed).value]

\* a chunk stage that hands every chunk to the embedder
stages_chunk_uncapped(st, all, env) ==
    IF all = <<>> THEN st ELSE stages_embed(st, all, env)

stages_chunk(st, all, env) ==
    IF all = <<>> THEN st
    ELSE stages_embed(st, IF Len(all) > MAX_TOTAL_CHUNKS THEN Take(all, MAX_TOTAL_CHUNKS)
                          ELSE all, env)

stages_fetch(st, f, env) ==
    IF f.docs = <<>> THEN [st EXCEPT !.fetched = TRUE, !.skipped = f.skipped]
    ELSE stages_chunk([st EXCEPT !.fetched = TRUE, !.docs = f.docs, !.skipped = f.skipped,
                                 !.chunked = TRUE],
                      chunk_docs(f.docs), env)

\* a search stage that goes on to the fetch stage whatever the search returned
stages_search_always_fetch(st, raw, env) ==
    stages_fetch([st EXCEPT !.hits = Take(raw, MAX_PAGES_TO_SCRAPE)],
                 fetch_docs(Take(raw, MAX_PAGES_TO_SCRAPE), env, 1, <<>>, 0), env)

stages_search(st, raw, env) ==
    IF raw = <<>> THEN st
    ELSE stages_fetch([st EXCEPT !.hits = Take(raw, MAX_PAGES_TO_SCRAPE)],
                      fetch_docs(Take(raw, MAX_PAGES_TO_SCRAPE), env, 1, <<>>, 0), env)

\* the search asked for k results and answered by raw
stages_searched(k, raw, env) ==
    stages_search([NoStages EXCEPT !.searched = TRUE, !.k = k, !.num = raw.num],
                  raw.value, env)

\* the search asked for as many results as pages are scraped
stages_not_oversampled(env) ==
    stages_searched(MAX_PAGES_TO_SCRAPE, search_web(MAX_PAGES_TO_SCRAPE, env.search), env)

ingest_stages(env) ==
    stages_searched(MAX_PAGES_TO_SCRAPE * 2, search_web(MAX_PAGES_TO_SCRAPE * 2, env.search),
                    env)

(***************************************************************************)
(* The environments of the runs of the model: what the search backend      *)
(* answers, what each page serves, how the embedding backend behaves.      *)
(***************************************************************************)
Topic == <<"A", " ", "b">>

PageA == Url(HTTP, <<"h">>, <<"/", "a">>)
PageB == Url(HTTP, <<"x">>, <<>>)

Organic ==
    << OrganicItem(PageA, <<"A">>),
       OrganicItem(PageB, <<"E">>),
       OrganicItem([Url(HTTPS, <<"h">>, <<"/", "c">>) EXCEPT !.fragment = <<"f">>], <<"D">>) >>

HtmlType == "text/html; charset=utf-8"

Served(html) == <<Resp(200, HtmlType, html), Exc, Exc>>

IngestEnv(search, a, b, embed) ==
    [search |-> search, fetch |-> (UrlStr(PageA) :> a) @@ (UrlStr(PageB) :> b),
     embed |-> embed]

SearchOk == [key |-> TRUE, script |-> <<Exc, SResp(200, Organic)>>]
EmbedOk == [provider |-> "openai", script |-> << <<"timeout", "ok">> >>]
EmbedDown == [provider |-> "openai", script |-> << <<"rate", "api">> >>]
EmbedLocal == [provider |-> "sentencetransformers", script |-> <<>>]

IngestEnvs ==
    { IngestEnv(SearchOk, Served("page_a"),
                <<Resp(503, HtmlType, ""), Resp(200, "Text/HTML", "page_b"), Exc>>, EmbedOk),
      IngestEnv(SearchOk, Served("page_a"),
                <<Resp(503, HtmlType, ""), Resp(200, "Text/HTML", "page_b"), Exc>>, EmbedDown),
      IngestEnv(SearchOk, Served("page_a"), Served("page_short"), EmbedLocal),
      IngestEnv([key |-> FALSE, script |-> <<>>], Served("page_a"), Served("page_b"), EmbedOk),
      IngestEnv(SearchOk, <<Resp(404, HtmlType, ""), Exc, Exc>>,
                <<Resp(200, "application/pdf", "page_b"), Exc, Exc>>, EmbedOk) }

ResearchEnvs == { e \in IngestEnvs : e.fetch[UrlStr(PageB)] # Served("page_short") /\ e.search.key }

\* two pages of one site, the URL of the first being the URL of the second
\* followed by "|0"; the chunk of order 1 of the first page is the text that
\* follows "1|" in the prefix of the chunk of order 0 of the second page
PageBar == Url(HTTP, <<"h">>, <<"/", "a", "|", "0">>)

CollidingEnv ==
    [search |-> [key |-> TRUE,
                 script |-> <<SResp(200, <<OrganicItem(PageBar, <<"P">>),
                                           OrganicItem(PageA, <<"A">>)>>)>>],
     fetch |-> (UrlStr(PageBar) :> Served("page_padded")) @@ (UrlStr(PageA) :> Served("page_prefixed")),
     embed |-> EmbedLocal]

RunEnvs == ResearchEnvs \cup {CollidingEnv}

\* the stages of each environment, computed once
StagesOf == [env \in IngestEnvs \cup {CollidingEnv} |-> ingest_stages(env)]

\* stages: what the run did besides returning: the hits fetched, the documents
\* kept, the ids of the chunks embedded and of the records handed to the store
IngestReturn(store, raised, ns, pages, count, skipped, docs, st, records, upserted) ==
    [store |-> store, raised |-> raised,
     value |-> [namespace |-> ns, indexed_pages |-> pages, indexed_chunks |-> count,
                skipped_pages |-> skipped,
                sources |-> [i \in 1..Len(docs) |->
                                [title |-> docs[i].title, url |-> docs[i].url,
                                 text_len |-> Len(docs[i].text)]]],
     stages |-> [searched |-> st.searched, k |-> st.k, num |-> st.num, hits |-> st.hits,
                 fetched |-> st.fetched, docs |-> st.docs,
                 chunks |-> ChunkIds(st.chunks),
                 chunk_urls |-> [i \in 1..Len(st.chunks) |-> st.chunks[i].url],
                 embedded |-> st.embedded,
                 records |-> [i \in 1..Len(records) |-> records[i].id],
                 upserted |-> upserted]]

ingest_return(ns, st, records, up) ==
    IF up.raised THEN IngestReturn(up.store, TRUE, ns, 0, 0, 0, <<>>, st, records, TRUE)
    ELSE IngestReturn(up.store, FALSE, ns, Len(st.docs), up.value.count_upserted,
                      st.skipped, st.docs, st, records, TRUE)

ingest_upsert(store, ns, st, records) ==
    ingest_return(ns, st, records, upsert_vectors(store, ns, records))

ingest_run(store, ns, st, ts) ==
    IF ~st.fetched THEN IngestReturn(store, FALSE, ns, 0, 0, 0, <<>>, st, <<>>, FALSE)
    ELSE IF ~st.chunked
    THEN IngestReturn(store, FALSE, ns, 0, 0, st.skipped, <<>>, st, <<>>, FALSE)
    ELSE IF ~st.embedded
    THEN IngestReturn(store, FALSE, ns, Len(st.docs), 0, st.skipped, <<>>, st, <<>>, FALSE)
    ELSE ingest_upsert(store, ns, st, IngestRecords(st.chunks, st.vecs, ts))

ingest_topic(store, query, namespace, env, ts) ==
    ingest_run(store, IF namespace = <<>> THEN slugify(query) ELSE namespace,
               StagesOf[env], ts)

(***************************************************************************)
(* ResearchAgent (agent/agent_react.py).                                   *)
(***************************************************************************)
\* get_collection under the prefixed name as it stands, any failure read as
\* absence
_namespace_exists(store, ns) == HasCollection(store, CHROMA_COLLECTION_PREFIX \o ns)

ResearchReturn(store, raised, value, stages) ==
    [store |-> store, raised |-> raised, value |-> value, stages |-> stages]

research_ingested(ns, obs) ==
    ResearchReturn(obs.store, obs.raised,
                   [namespace |-> ns, did_ingest |-> TRUE, ingest_summary |-> obs.value],
                   obs.stages)

research_ns(store, topic, ns, force, env, ts) ==
    IF force \/ ~_namespace_exists(store, ns)
    THEN research_ingested(ns, ingest_topic(store, topic, ns, env, ts))
    ELSE ResearchReturn(store, FALSE, [namespace |-> ns, did_ingest |-> FALSE],
                        IngestReturn(store, FALSE, ns, 0, 0, 0, <<>>, NoStages, <<>>,
                                     FALSE).stages)

research(store, topic, namespace, force, env, ts) ==
    research_ns(store, topic, IF namespace = <<>> THEN slugify(topic) ELSE namespace,
                force, env, ts)

\* the set of outcomes the call can have; 0 stands for top_k left at None
ask(store, question, namespace, top_k, env, llm) ==
    { [raised |-> a.raised,
       value |-> [namespace |-> namespace, question |-> question,
                  content |-> a.value.content, citations |-> a.value.citations],
       answer |-> a]
      : a \in answer_question(store, question, namespace,
                              IF top_k = 0 THEN RETRIEVAL_TOP_K ELSE top_k, env, llm) }

(***************************************************************************)
(* Question answering over a store filled by upsert_vectors.               *)
(***************************************************************************)
Namespaces == { <<>>, <<"x">>, <<"x", " ">> }

TopKs == { 0, 1 }

QueryEnvs ==
    { [provider |-> "sentencetransformers", query |-> "ok"],
      [provider |-> "openai", query |-> "ok"],
      [provider |-> "openai", query |-> "api"] }

QaLlmEnvs == { e \in LlmEnvs : e.provider \in {"openai", "OpenAI ", "gemini"} }


Metadata(url, title) == [url |-> url, title |-> title, order |-> 0, added_at |-> 0]

UpsertRecord(id, embedding, document, metadata) ==
    [id |-> RawId(id), embedding |-> embedding, document |-> document, metadata |-> metadata]

R1 == UpsertRecord(<<"1">>, <<5, 0>>, <<"a", "a", " ">>, Metadata(<<"A">>, <<"T", "1">>))
R2 == UpsertRecord(<<"2">>, <<0, 5>>, <<"b">>, Metadata(<<"B">>, <<"T", "2">>))
R3 == UpsertRecord(<<" ", "1">>, <<4, 3>>, <<"a", "b">>, [title |-> <<"T", "3">>])
R4 == UpsertRecord(<<"4">>, <<4, 3>>, <<"a", "b">>, Metadata(<<"D">>, <<"T", "4">>))
NoId == UpsertRecord(<<" ">>, <<3, 4>>, <<"c">>, Metadata(<<"C">>, <<>>))
NoVector == UpsertRecord(<<"3">>, None, <<"c">>, Metadata(<<"C">>, <<>>))
NoDocument == UpsertRecord(<<"3">>, <<3, 4>>, <<"\n">>, Metadata(<<"C">>, <<>>))

RecordLists ==
    { <<>>, <<R1>>, <<R3>>, <<R1, R2>>, <<NoId>>, <<NoVector, NoDocument>>,
      <<NoId, R2, NoVector>>, <<R1, R3>>, <<R4>> }

\* the inputs of the calls made beside ingestion runs
FewRecordLists == { <<>>, <<R1, R2>>, <<NoId, NoVector>> }
FewQuestions == { <<" ">>, <<"a">> }
FewQueryEnvs == { e \in QueryEnvs : e.provider = "openai" }
FewLlmEnvs == { e \in QaLlmEnvs : e.provider = "openai" }

UpsertVectorsOf(lists) ==
    /\ \E namespace \in Namespaces, records \in lists :
          LET r == upsert_vectors(collections, namespace, records)
          IN  /\ collections' = r.store
              /\ last' = [op |-> "upsert_vectors", done |-> TRUE, namespace |-> namespace,
                          records |-> records,
                          out |-> [raised |-> r.raised, value |-> r.value]]
    /\ UNCHANGED <<clock, hashSeed, threads>>

UpsertVectors == UpsertVectorsOf(RecordLists)

\* top_k_none: the caller left top_k at None, which the call passes on as 0
\* (top_k or SETTINGS.RETRIEVAL_TOP_K treats None and 0 alike)
RetrieveContextOf(questions, top_ks, envs) ==
    /\ \E namespace \in Namespaces, question \in questions, top_k \in top_ks,
          env \in envs, none \in BOOLEAN :
          /\ none => top_k = 0
          /\ \E out \in retrieve_context(collections, namespace, question, top_k, env) :
                last' = [op |-> "retrieve_context", done |-> TRUE, namespace |-> namespace,
                         question |-> question, top_k |-> top_k, top_k_none |-> none,
                         env |-> env, out |-> out]
    /\ UNCHANGED <<collections, clock, hashSeed, threads>>

RetrieveContext == RetrieveContextOf(Questions, TopKs, QueryEnvs)

AnswerQuestionOf(questions, top_ks, envs, llms) ==
    /\ \E namespace \in Namespaces, question \in questions, top_k \in top_ks,
          env \in envs, llm \in llms :
          \E out \in answer_question(collections, question, namespace, top_k, env, llm) :
             last' = [op |-> "answer_question", done |-> TRUE, namespace |-> namespace,
                      question |-> question, top_k |-> top_k, env |-> env, llm |-> llm,
                      out |-> out]
    /\ UNCHANGED <<collections, clock, hashSeed, threads>>

AnswerQuestion == AnswerQuestionOf(Questions, TopKs, QueryEnvs, QaLlmEnvs)

\* synthesize_answer called on contexts of the caller's own
SynthesizeContexts ==
    /\ \E contexts \in SeqsUpTo({Context(<<"A">>, <<"T", "1">>), Context(<<>>, <<>>)}, 2),
          llm \in QaLlmEnvs :
          last' = [op |-> "synthesize_answer", done |-> TRUE, question |-> <<"a">>,
                   contexts |-> contexts, llm |-> llm,
                   out |-> synthesize_answer(<<"a">>, contexts, llm)]
    /\ UNCHANGED <<collections, clock, hashSeed, threads>>

NextQA == UpsertVectors \/ RetrieveContext \/ AnswerQuestion \/ SynthesizeContexts

SpecQA == Init /\ [][NextQA]_vars

(***************************************************************************)
(* The pipeline: ingestion runs, research and ask of the agent, and direct *)
(* calls of the tools, on one persisted store.                             *)
(***************************************************************************)
\* now_iso() reads the clock, which moves on while the run lasts; rerun: the
\* call before was the same run
IngestTopicOf(envs) ==
    /\ \E namespace \in Namespaces, env \in envs :
          LET r == ingest_topic(collections, Topic, namespace, env, clock)
          IN  /\ collections' = r.store
              /\ last' = [op |-> "ingest_topic", done |-> TRUE, query |-> Topic,
                          namespace |-> namespace, env |-> env,
                          rerun |-> IF last.op = "ingest_topic"
                                    THEN last.namespace = namespace /\ last.env = env
                                    ELSE FALSE,
                          out |-> [raised |-> r.raised, value |-> r.value,
                                   stages |-> r.stages]]
    /\ clock' = Min(clock + 1, MaxClock)
    /\ UNCHANGED <<hashSeed, threads>>

IngestTopic == IngestTopicOf(IngestEnvs)

ResearchOf(envs) ==
    /\ \E namespace \in Namespaces, force \in BOOLEAN, env \in envs :
          LET r == research(collections, Topic, namespace, force, env, clock)
          IN  /\ collections' = r.store
              /\ last' = [op |-> "research", done |-> TRUE, topic |-> Topic,
                          namespace |-> namespace, force |-> force, env |-> env,
                          out |-> [raised |-> r.raised, value |-> r.value,
                                   stages |-> r.stages]]
    /\ clock' = Min(clock + 1, MaxClock)
    /\ UNCHANGED <<hashSeed, threads>>

Research == ResearchOf(ResearchEnvs)

Ask ==
    /\ \E namespace \in Namespaces, question \in FewQuestions, top_k \in {0},
          env \in FewQueryEnvs, llm \in FewLlmEnvs :
          \E out \in ask(collections, question, namespace, top_k, env, llm) :
             last' = [op |-> "ask", done |-> TRUE, namespace |-> namespace,
                      question |-> question, top_k |-> top_k, env |-> env, llm |-> llm,
                      out |-> out]
    /\ UNCHANGED <<collections, clock, hashSeed, threads>>

\* the tools called directly, between runs
Upsert == UpsertVectorsOf(FewRecordLists)
Retrieve == RetrieveContextOf({<<"a">>}, {0}, FewQueryEnvs)
Answer == AnswerQuestionOf({<<"a">>}, {0}, FewQueryEnvs, FewLlmEnvs)

Next == Upsert \/ Retrieve \/ Answer \/ IngestTopic \/ Research \/ Ask

Spec == Init /\ [][Next]_vars

NextIngest == IngestTopic

SpecIngest == Init /\ [][NextIngest]_vars

NextAgent == Research \/ Ask

SpecAgent == Init /\ [][NextAgent]_vars

\* two runs of ingest_topic in a row for the same topic and namespace that find
\* the same search hits and the same page texts
SameSources ==
    /\ last.op = "ingest_topic" /\ last'.op = "ingest_topic"
    /\ last'.query = last.query /\ last'.namespace = last.namespace
    /\ ~last.out.raised /\ ~last'.out.raised
    /\ last'.out.stages.hits = last.out.stages.hits
    /\ last'.out.stages.docs = last.out.stages.docs

\* the second run indexes as many chunks, under the same ids, and leaves the
\* number of records of the namespace as it was
SecondRunOverwrites ==
    /\ last'.out.value.indexed_chunks = last.out.value.indexed_chunks
    /\ Range(last'.out.stages.records) = Range(last.out.stages.records)
    /\ collection_count(collections', _collection_name(last'.out.value.namespace))
         = collection_count(collections, _collection_name(last.out.value.namespace))

\* C1 as stated: running ingest_topic twice for the same topic and namespace
\* with the same search hits and the same page texts yields the same
\* indexed_chunks count, the same set of chunk ids and an unchanged number of
\* records in the namespace.
C1_IdempotentReingestion == [][SameSources => SecondRunOverwrites]_vars

\* C1: running ingest_topic twice for the same topic and namespace with the
\* same search hits, the same page texts and the same outcome of the embedding
\* batches (embedded in both runs or dropped in both) yields the same
\* indexed_chunks count, the same set of chunk ids and an unchanged number of
\* records in the namespace.
C1_IdempotentSameEmbedding ==
    [][(SameSources
        /\ BatchSucceeds(last'.env.embed, 1) = BatchSucceeds(last.env.embed, 1))
       => SecondRunOverwrites]_vars

\* the same run made twice: the second writes its chunks over the first's
C1_Witness ==
    /\ last.op = "ingest_topic"
    /\ last.rerun
    /\ last.namespace = <<"x">>
    /\ last.out.value.indexed_pages = 2
    /\ last.out.value.indexed_chunks = MAX_TOTAL_CHUNKS
    /\ collection_count(collections, _collection_name(<<"x">>)) = MAX_TOTAL_CHUNKS
    /\ \A id \in DOMAIN collections[_collection_name(<<"x">>)] :
          collections[_collection_name(<<"x">>)][id].metadata.added_at = 1

\* C7 as stated: research runs ingestion if and only if force is true or the
\* namespace's collection does not exist; when the namespace exists and force is
\* false it returns did_ingest = False with no ingest_summary, performs no
\* search, fetch, embed or upsert, and leaves the vector store unchanged.
C7_IngestIffForcedOrMissing ==
    [][(last'.op = "research") =>
          LET ns == last'.out.value.namespace
              exists == HasCollection(collections, _collection_name(ns))
          IN  /\ last'.out.value.did_ingest <=> (last'.force \/ ~exists)
              /\ (exists /\ ~last'.force) =>
                    /\ "ingest_summary" \notin DOMAIN last'.out.value
                    /\ ~last'.out.stages.searched
                    /\ ~last'.out.stages.fetched
                    /\ ~last'.out.stages.embedded
                    /\ ~last'.out.stages.upserted
                    /\ collections' = collections]_vars

\* C8 as stated: a collection comes into existence only through an
\* upsert_vectors call that writes at least one record into it, and once it
\* exists no operation of the pipeline deletes it.
C8_CreatedByWritingUpsert ==
    [][/\ \A name \in DOMAIN collections' \ DOMAIN collections :
             /\ last'.op \in {"upsert_vectors", "ingest_topic", "research"}
             /\ collection_count(collections', name) >= 1
       /\ DOMAIN collections \subseteq DOMAIN collections']_vars

\* C5: retrieve_context on a namespace whose collection does not exist returns
\* [] without raising and without any call to the embedding backend; it also
\* returns [] when the question embeds to an empty vector.
C5_EmptyNamespaceRetrieval ==
    (last.op = "retrieve_context") =>
        /\ ~HasCollection(collections, _collection_name(last.namespace)) =>
              /\ ~last.out.raised
              /\ last.out.value = <<>>
              /\ last.out.embed_calls = 0
        /\ _embed_query(last.question, last.env).value = <<>>
           /\ ~_embed_query(last.question, last.env).raised =>
              /\ ~last.out.raised
              /\ last.out.value = <<>>

\* a question asked of a namespace never written, while another namespace is
\* filled and the embedding backend is failing
C5_Witness ==
    /\ last.op = "retrieve_context"
    /\ last.namespace = <<"x">>
    /\ last.question = <<"a">>
    /\ last.env = [provider |-> "openai", query |-> "api"]
    /\ collections = NoCollections
    /\ last.out = RetrieveReturn(FALSE, <<>>, 0, 0)

\* C6: answer_question whose retrieval is empty, and synthesize_answer called
\* with an empty contexts list, both return a fixed message with citations = []
\* and make no call to a language-model backend; answer_question delegates to
\* synthesize_answer only when the retrieval is non-empty.
C6_NoContextNoLlm ==
    /\ (last.op = "answer_question" /\ ~last.out.retrieval.raised
        /\ last.out.retrieval.value = <<>>) =>
          /\ ~last.out.raised
          /\ last.out.value = [content |-> QA_NO_CONTEXT, citations |-> <<>>]
          /\ last.out.llm_calls = 0
          /\ ~last.out.delegated
    /\ (last.op = "synthesize_answer" /\ last.done /\ last.contexts = <<>>) =>
          /\ ~last.out.raised
          /\ last.out.value = [content |-> SYNTH_NO_CONTEXT, citations |-> <<>>]
          /\ last.out.llm_calls = 0
    /\ (last.op = "answer_question" /\ last.out.delegated) =>
          /\ ~last.out.retrieval.raised
          /\ last.out.retrieval.value # <<>>
    /\ (last.op = "answer_question") =>
          last.out.retrieval \in
              retrieve_context(collections, last.namespace, last.question,
                               IF last.top_k = 0 THEN RETRIEVAL_TOP_K ELSE last.top_k,
                               last.env)

\* a blank question asked of a filled namespace: the retrieval is empty, and
\* the language backend, which would fail, is not called
C6_Witness ==
    /\ last.op = "answer_question"
    /\ last.namespace = <<"x">>
    /\ HasCollection(collections, _collection_name(<<"x">>))
    /\ collection_count(collections, _collection_name(<<"x">>)) = 2
    /\ last.question = <<" ">>
    /\ last.llm.provider = "OpenAI "
    /\ ~last.out.raised
    /\ last.out.value.content = QA_NO_CONTEXT
    /\ last.out.llm_calls = 0

(***************************************************************************)
(* The quality gate of ingest_topic.                                       *)
(***************************************************************************)
\* what fetch_page returned for the i-th hit of the run, and the text extracted
FetchedOf(i) ==
    fetch_page(last.out.stages.hits[i].url,
               FetchScriptOf(last.env, last.out.stages.hits[i].url)).value

ExtractedOf(i) == extract_readable_text(FetchedOf(i).html, FetchedOf(i).url)

\* the hits whose page was fetched (status 200, html not empty) and whose
\* extracted text has at least 1200 characters
KeptHits ==
    {i \in 1..Len(last.out.stages.hits) :
        /\ FetchedOf(i).status = 200 /\ FetchedOf(i).html # ""
        /\ Len(ExtractedOf(i).text) >= _MIN_TEXT_LEN}

\* C11: in ingest_topic a fetched page is kept if and only if its extracted
\* text has at least 1200 characters; every page that fails the fetch or the
\* gate is counted exactly once in skipped_pages and contributes no chunk.
C11_QualityGateBoundary ==
    (last.op = "ingest_topic" /\ ~last.out.raised /\ last.out.stages.fetched) =>
        /\ last.out.stages.docs =
              SelectAt([i \in 1..Len(last.out.stages.hits) |-> ExtractedOf(i)], KeptHits, 1)
        /\ last.out.value.skipped_pages = Len(last.out.stages.hits) - Cardinality(KeptHits)
        /\ last.out.value.indexed_pages = Cardinality(KeptHits)
        /\ \A c \in 1..Len(last.out.stages.chunk_urls) :
              \E i \in KeptHits :
                 last.out.stages.chunk_urls[c] = UrlStr(ExtractedOf(i).url)

\* a page of 1200 characters kept beside a page of 1199 characters rejected
C11_Witness ==
    /\ last.op = "ingest_topic" /\ ~last.out.raised
    /\ Len(last.out.stages.hits) = 2
    /\ KeptHits = {1}
    /\ Len(ExtractedOf(1).text) = 1200
    /\ FetchedOf(2).status = 200 /\ Len(ExtractedOf(2).text) = 1199
    /\ last.out.value.skipped_pages = 1
    /\ last.out.value.indexed_pages = 1
    /\ last.out.value.indexed_chunks >= 1

(***************************************************************************)
(* The order of the retrieved contexts.                                    *)
(***************************************************************************)
\* the collection the last retrieval read and the vector of its question
QueriedCollection == collections[_collection_name(last.namespace)]
QueryVector == _embed_query(last.question, last.env).value

\* the retrieval reached collection.query
Queried == last.op = "retrieve_context" /\ ~last.out.raised /\ last.out.queries = 1

ScoreOf(id) == ONE - CosineDistance(QueryVector, QueriedCollection[id].embedding)

\* the contexts are those of distinct records, each with score = 1 - distance,
\* none of the records left out being nearer than one returned; the scores do
\* not increase along the list, and the first is the highest of the collection
NearestFirst ==
    LET out == last.out.value
    IN  /\ \E r \in [1..Len(out) -> DOMAIN QueriedCollection] :
              /\ \A i, j \in 1..Len(out) : i < j => r[i] # r[j]
              /\ \A i \in 1..Len(out) :
                    /\ out[i].text = QueriedCollection[r[i]].document
                    /\ out[i].score = ScoreOf(r[i])
              /\ \A id \in DOMAIN QueriedCollection \ Range(r) :
                    \A i \in 1..Len(out) : ScoreOf(id) <= out[i].score
        /\ \A i, j \in 1..Len(out) : i < j => out[i].score >= out[j].score
        /\ out # <<>> => \A id \in DOMAIN QueriedCollection : ScoreOf(id) <= out[1].score

\* C12 as stated: retrieve_context returns at most top_k contexts (at most
\* RETRIEVAL_TOP_K when top_k is left at None), each with score = 1 - distance
\* of the stored vector to the query, sorted by non-increasing score, the
\* indexed chunk nearest to the query first with the highest score.
C12_AtMostTopK ==
    Queried =>
        /\ Len(last.out.value)
              <= (IF last.top_k_none THEN RETRIEVAL_TOP_K ELSE last.top_k)
        /\ NearestFirst

\* C12: retrieve_context returns at most max(1, k) contexts, where k is top_k,
\* or RETRIEVAL_TOP_K when top_k is None or 0; each has score = 1 - distance
\* of the stored vector to the query, the list is sorted by non-increasing
\* score, the indexed chunk nearest to the query first with the highest score.
C12_RetrievalOrdering ==
    Queried =>
        /\ Len(last.out.value)
              <= Max(1, IF last.top_k = 0 THEN RETRIEVAL_TOP_K ELSE last.top_k)
        /\ NearestFirst

\* three chunks indexed, the two nearest to the question returned in order
C12_Witness ==
    /\ Queried
    /\ Cardinality(DOMAIN QueriedCollection) = 3
    /\ last.top_k_none
    /\ Len(last.out.value) = RETRIEVAL_TOP_K
    /\ last.out.value[1].score = ONE
    /\ last.out.value[2].score < ONE /\ last.out.value[2].score > 0

(***************************************************************************)
(* Malformed records at the storage boundary.                              *)
(***************************************************************************)
\* the records of the last upsert_vectors call that have a non-empty id, a
\* vector and a non-empty document
WellFormed(records) ==
    SelectAt(records,
             {i \in 1..Len(records) :
                 /\ Strip(records[i].id.s) # <<>>
                 /\ records[i].embedding # None
                 /\ Strip(records[i].document) # <<>>}, 1)

StoredIds(store, name) == IF name \in DOMAIN store THEN DOMAIN store[name] ELSE {}

\* the step wrote exactly the well-formed records of the call, under their
\* stripped ids, beside what the collection held, and returned their number
WroteWellFormed ==
    LET valid == WellFormed(last'.records)
        name == _collection_name(last'.namespace)
    IN  /\ ~last'.out.raised
        /\ last'.out.value.count_upserted = Len(valid)
        /\ StoredIds(collections', name)
              = StoredIds(collections, name) \cup {RecordId(valid[i]) : i \in 1..Len(valid)}
        /\ \A i \in 1..Len(valid) :
              collections'[name][RecordId(valid[i])]
                 = [embedding |-> valid[i].embedding,
                    document |-> Strip(valid[i].document),
                    metadata |-> valid[i].metadata]
        /\ \A id \in StoredIds(collections, name)
                     \ {RecordId(valid[i]) : i \in 1..Len(valid)} :
              collections'[name][id] = collections[name][id]

\* C13 as stated: upsert_vectors (on a namespace given) skips, without raising
\* and without aborting the batch, every record that lacks a non-empty id, a
\* list-typed vector or non-empty document text; all remaining records are
\* written, and count_upserted equals the number of valid records.
C13_SkipsMalformed ==
    [][(last'.op = "upsert_vectors" /\ last'.namespace # <<>>) => WroteWellFormed]_vars

\* C13: the same, for the calls whose valid records have pairwise distinct
\* stripped ids.
C13_SkipsMalformedDistinctIds ==
    [][(/\ last'.op = "upsert_vectors" /\ last'.namespace # <<>>
        /\ \A i, j \in 1..Len(WellFormed(last'.records)) :
              i # j => RecordId(WellFormed(last'.records)[i])
                          # RecordId(WellFormed(last'.records)[j]))
       => WroteWellFormed]_vars

\* a batch of one valid record between two malformed ones: the one written
C13_Witness ==
    /\ last.op = "upsert_vectors"
    /\ last.records = <<NoId, R2, NoVector>>
    /\ last.namespace = <<"x">>
    /\ ~last.out.raised
    /\ last.out.value.count_upserted = 1
    /\ RecordId(R2) \in DOMAIN collections[_collection_name(<<"x">>)]
    /\ RecordId(NoVector) \notin DOMAIN collections[_collection_name(<<"x">>)]

(***************************************************************************)
(* The retry policy of fetch_page.                                         *)
(***************************************************************************)
\* the call of fetch_page got past the scheme check
Fetched == last.op = "fetch_page" /\ last.done /\ _is_http_url(last.url)

\* the outcome of the i-th request of the call
OutcomeOf(i) == RequestOutcomes(last.url, last.script)[i]

\* the outcome of a request is a transport error or one of the statuses retried
TransientOutcome(o) ==
    \/ o.kind = "exc"
    \/ o.kind = "resp" /\ o.status \in {408, 409, 425, 429, 500, 502, 503, 504}

MalformedUrl(u) == u.bad \/ u.scheme = <<>> \/ u.netloc = <<>>

\* a response that no retry can better: a 4xx status outside the retried set,
\* or a 200 whose content type is not HTML
PermanentOutcome(o) ==
    /\ o.kind = "resp"
    /\ \/ o.status \in 400..499 \ {408, 409, 425, 429}
       \/ o.status = 200 /\ ~IsHtmlCtype(o.ctype)

\* C15 as stated: for a non-retryable 4xx status, a malformed URL, or a non-HTML
\* content type, fetch_page returns an empty-html result immediately, after at
\* most one request and without any backoff wait; a permanent failure met
\* after retries is not retried either.
C15_PermanentNotRetried ==
    (last.op = "fetch_page" /\ last.done) =>
        /\ MalformedUrl(last.url) =>
              /\ last.out.value.html = ""
              /\ last.out.requests <= 1
              /\ last.out.waits = <<>>
        /\ (Fetched /\ ~MalformedUrl(last.url) /\ PermanentOutcome(last.script[1])) =>
              /\ last.out.value.html = ""
              /\ last.out.requests = 1
              /\ last.out.waits = <<>>
        /\ (Fetched /\ ~MalformedUrl(last.url)) =>
              \A i \in 1..last.out.requests :
                 PermanentOutcome(last.script[i]) =>
                    last.out.requests = i /\ last.out.value.html = ""

(***************************************************************************)
(* The result of fetch_page: html and status.                              *)
(***************************************************************************)
\* the outcome of the last request of the call
FinalOutcome == OutcomeOf(last.out.requests)

\* the response says text/html or application/xhtml+xml, in any case and with
\* any parameters
SaysHtml(o) ==
    o.ctype \in {"text/html; charset=utf-8", "Text/HTML", "application/xhtml+xml"}

\* C16: html is non-empty only if status = 200 and the response content type is
\* text/html or application/xhtml+xml; a response with any other content type
\* yields html "" with the status code of the response (not 0); status 0 occurs
\* only for a rejected scheme or a last request that produced no response.
C16_HtmlOnlyFrom200Html ==
    (last.op = "fetch_page" /\ last.done) =>
        /\ last.out.value.html # "" =>
              /\ Fetched
              /\ last.out.value.status = 200
              /\ FinalOutcome.kind = "resp" /\ FinalOutcome.status = 200
              /\ SaysHtml(FinalOutcome)
              /\ last.out.value.html = FinalOutcome.body
        /\ (Fetched /\ FinalOutcome.kind = "resp") =>
              /\ last.out.value.status = FinalOutcome.status
              /\ last.out.value.status # 0
              /\ ~SaysHtml(FinalOutcome) => last.out.value.html = ""
        /\ last.out.value.status = 0 =>
              \/ ~_is_http_url(last.url)
              \/ FinalOutcome.kind = "exc"

\* a PDF served with status 200: html "" and status 200
C16_Witness ==
    /\ Fetched
    /\ last.out.requests = 2
    /\ OutcomeOf(1).kind = "exc"
    /\ FinalOutcome = Resp(200, "application/pdf", "page")
    /\ last.out.value.html = ""
    /\ last.out.value.status = 200

(***************************************************************************)
(* The failures of the search provider.                                    *)
(***************************************************************************)
\* the request is re-issued: a transport error or a 429/5xx status
SearchRetried(o) ==
    \/ o.kind = "exc"
    \/ o.kind = "resp" /\ o.status \in {429, 500, 502, 503, 504}

\* C17 as stated: search_web never raises; it returns [] without any request
\* when the API key is missing, returns [] after a single request on a
\* non-retryable status, and on retryable failures (429/5xx status or transport
\* error) re-issues the request until it succeeds or MAX_RETRIES + 1 requests
\* were made, then returns [].
C17_SearchNeverRaises ==
    (last.op = "search_web" /\ last.done) =>
        LET n == last.out.requests
            script == last.env.script
        IN  /\ ~last.out.raised
            /\ ~last.env.key => last.out.value = <<>> /\ n = 0
            /\ last.env.key =>
                  /\ n >= 1 /\ n <= MAX_RETRIES + 1
                  /\ \A i \in 1..(n - 1) : SearchRetried(script[i])
                  /\ n < MAX_RETRIES + 1 => ~SearchRetried(script[n])
                  /\ (script[n].kind = "exc" \/ script[n].status # 200) =>
                        last.out.value = <<>>
                  /\ (script[1].kind = "resp" /\ ~SearchRetried(script[1])
                      /\ script[1].status # 200) => n = 1

(***************************************************************************)
(* The short circuits of ingest_topic.                                     *)
(***************************************************************************)
\* a stage of the last run yielded nothing: the search no hit, the fetch loop
\* no document, the chunking no chunk
YieldedNothing ==
    \/ last.out.stages.hits = <<>>
    \/ last.out.stages.docs = <<>>
    \/ last.out.stages.chunks = <<>>

ZeroCounts ==
    /\ last.out.value.indexed_pages = 0
    /\ last.out.value.indexed_chunks = 0
    /\ last.out.value.sources = <<>>

EmptySearchRun ==
    /\ last.op = "ingest_topic"
    /\ last.out.stages.searched /\ last.out.stages.hits = <<>>
    /\ ~last.out.stages.fetched
    /\ ZeroCounts

\* a document that passed the gate always gives a chunk: its text ends in a
\* character that is not white space
KeptDocsGiveChunks ==
    (last.op = "ingest_topic" /\ last.out.stages.docs # <<>>) =>
        last.out.stages.chunks # <<>>

(***************************************************************************)
(* The cap on the chunks of one run.                                       *)
(***************************************************************************)
\* the ids of the chunks of the documents the last run kept, in document order
AllChunkIds == ChunkIds(chunk_docs(last.out.stages.docs))

\* C19: in any run of ingest_topic the chunks passed to the embedder are the
\* first MAX_TOTAL_CHUNKS chunks in document order, the records passed to
\* upsert are among them, and indexed_chunks <= MAX_TOTAL_CHUNKS.
C19_ChunkCap ==
    (last.op = "ingest_topic" /\ last.out.stages.embedded) =>
        /\ last.out.stages.chunks = Take(AllChunkIds, MAX_TOTAL_CHUNKS)
        /\ Len(last.out.stages.chunks) <= MAX_TOTAL_CHUNKS
        /\ IsSubseq(last.out.stages.records, last.out.stages.chunks)
        /\ Len(last.out.stages.records) <= MAX_TOTAL_CHUNKS
        /\ last.out.value.indexed_chunks <= MAX_TOTAL_CHUNKS

\* a run whose documents give more chunks than the cap: exactly
\* MAX_TOTAL_CHUNKS of them are embedded and written
C19_Witness ==
    /\ last.op = "ingest_topic" /\ ~last.out.raised
    /\ Len(AllChunkIds) > MAX_TOTAL_CHUNKS
    /\ Len(last.out.stages.chunks) = MAX_TOTAL_CHUNKS
    /\ Len(last.out.stages.records) = MAX_TOTAL_CHUNKS
    /\ last.out.value.indexed_chunks = MAX_TOTAL_CHUNKS
    /\ last.out.stages.upserted

(***************************************************************************)
(* Transient failures of the backends.                                     *)
(***************************************************************************)
\* the request that embeds the question failed: "api" is an APIError of the
\* client, the class of its connection errors, time-outs, rate limits and
\* 5xx statuses
QueryEmbeddingFailed ==
    /\ last.env.provider = "openai"
    /\ last.env.query # "ok"
    /\ last.out.retrieval.embed_calls > 0

\* C20: when the embedding of the question inside retrieve_context fails with
\* a network error, a retryable status, a rate limit or a time-out,
\* answer_question still returns a result and no exception reaches its
\* caller.
C20_TransientAbsorbed ==
    (last.op = "answer_question" /\ QueryEmbeddingFailed) => ~last.out.raised

\* a run of ingest_topic whose search, page fetches and embedding calls met
\* transient failures: an exception leaves it only from the call of the store
IngestAbsorbsTransient ==
    (last.op = "ingest_topic" /\ last.out.raised) => last.out.stages.upserted

(***************************************************************************)
(* The settings object (config/settings.py).  env is the process          *)
(* environment after load_dotenv: a key left out reads as "".              *)
(***************************************************************************)
SettingsReturn(raised, error, env) ==
    [raised |-> raised, error |-> error,
     settings |-> IF raised THEN None ELSE env]

\* _Settings(): the dataclass fields read from env, then __post_init__.  The
\* class has no GOOGLE_API_KEY field, so the gemini branch fails on the
\* attribute whatever the environment holds
_Settings(env) ==
    IF env.LLM_PROVIDER = "gemini"
    THEN SettingsReturn(TRUE, "AttributeError", env)
    ELSE IF env.LLM_PROVIDER = "openai" /\ env.OPENAI_API_KEY = ""
    THEN SettingsReturn(TRUE, "RuntimeError", env)
    ELSE IF env.LLM_PROVIDER = "groq" /\ env.GROQ_API_KEY = ""
    THEN SettingsReturn(TRUE, "RuntimeError", env)
    ELSE IF env.LLM_PROVIDER \notin {"openai", "ollama", "groq"}
    THEN SettingsReturn(TRUE, "RuntimeError", env)
    ELSE IF env.SEARCH_PROVIDER = "serpapi" /\ env.SERPAPI_API_KEY = ""
    THEN SettingsReturn(TRUE, "RuntimeError", env)
    ELSE SettingsReturn(FALSE, "", env)

ApiKeys == {"", "k"}

SettingsEnvs ==
    [LLM_PROVIDER : {"openai", "gemini", "ollama", "groq", "claude"},
     EMBEDDINGS_PROVIDER : {"openai", "sentencetransformers", "cohere"},
     SEARCH_PROVIDER : {"serpapi", "duckduckgo", "bing"},
     OPENAI_API_KEY : ApiKeys, SERPAPI_API_KEY : ApiKeys, GROQ_API_KEY : ApiKeys,
     GOOGLE_API_KEY : ApiKeys]

InitSettings ==
    /\ collections = NoCollections
    /\ clock = 0
    /\ hashSeed = 0
    /\ threads = NoThreads
    /\ \E env \in SettingsEnvs : last = [op |-> "_Settings", done |-> FALSE, env |-> env]

BuildSettings ==
    /\ last.op = "_Settings" /\ ~last.done
    /\ last' = [op |-> "_Settings", done |-> TRUE, env |-> last.env,
                out |-> _Settings(last.env)]
    /\ UNCHANGED <<collections, clock, hashSeed, threads>>

NextSettings == BuildSettings

SpecSettings == InitSettings /\ [][NextSettings]_vars

\* the key a provider needs: the name of its variable, "" for a provider that
\* needs none
LlmKeyOf(provider) ==
    IF provider = "openai" THEN "OPENAI_API_KEY"
    ELSE IF provider = "gemini" THEN "GOOGLE_API_KEY"
    ELSE IF provider = "groq" THEN "GROQ_API_KEY"
    ELSE ""

SearchKeyOf(provider) == IF provider = "serpapi" THEN "SERPAPI_API_KEY" ELSE ""

\* embed_chunks and _embed_query build the OpenAI client from OPENAI_API_KEY
\* unless the provider is sentencetransformers
EmbeddingsKeyOf(provider) == IF provider = "sentencetransformers" THEN "" ELSE "OPENAI_API_KEY"

HasKey(env, key) == key = "" \/ env[key] # ""

SupportedNames(env) ==
    /\ env.LLM_PROVIDER \in {"openai", "gemini", "ollama", "groq"}
    /\ env.EMBEDDINGS_PROVIDER \in {"openai", "sentencetransformers"}
    /\ env.SEARCH_PROVIDER \in {"serpapi", "duckduckgo"}

\* C21: building the settings object raises whenever a selected provider
\* (LLM, search or embeddings) needs an API key that is absent or a selected
\* provider name is unsupported: every settings object built has the keys of
\* its selected providers.
C21_FailFast ==
    (last.op = "_Settings" /\ last.done /\ ~last.out.raised) =>
        /\ HasKey(last.env, LlmKeyOf(last.env.LLM_PROVIDER))
        /\ HasKey(last.env, SearchKeyOf(last.env.SEARCH_PROVIDER))
        /\ HasKey(last.env, EmbeddingsKeyOf(last.env.EMBEDDINGS_PROVIDER))
        /\ SupportedNames(last.env)

\* the keys of the LLM and of the search provider are checked
LlmAndSearchKeysChecked ==
    (last.op = "_Settings" /\ last.done /\ ~last.out.raised) =>
        /\ HasKey(last.env, LlmKeyOf(last.env.LLM_PROVIDER))
        /\ HasKey(last.env, SearchKeyOf(last.env.SEARCH_PROVIDER))
        /\ last.env.LLM_PROVIDER \in {"openai", "ollama", "groq"}

(***************************************************************************)
(* Concurrent callers.  Each caller runs one ingest_topic or one research  *)
(* call; the calls of the store (get_collection, get_or_create_collection, *)
(* collection.upsert) are the atomic steps, everything between two of them *)
(* reads no shared state.                                                  *)
(***************************************************************************)
Threads == {1, 2}

ConcNamespaces == { <<"x">>, <<"x", " ">>, <<"y">> }

ConcEnvs == { e \in IngestEnvs : e.embed # EmbedDown /\ e.fetch[UrlStr(PageA)] = Served("page_a") }

Idle == [pc |-> "idle"]

InitConcurrent ==
    /\ collections = NoCollections
    /\ last = [op |-> "init"]
    /\ clock = 0
    /\ hashSeed = 0
    /\ threads = [t \in Threads |-> Idle]

\* the position of caller t changes, its other fields stay
At(t, pc) == [threads EXCEPT ![t].pc = pc]

\* the call returns: did_ingest and the summary of the ingestion
Returned(t, did_ingest, raised, pages, count) ==
    [threads EXCEPT ![t].pc = "done", ![t].did_ingest = did_ingest,
                    ![t].raised = raised, ![t].indexed_pages = pages,
                    ![t].indexed_chunks = count]

Called(op, namespace, force, env, pc) ==
    [pc |-> pc, op |-> op, ns |-> namespace, force |-> force, env |-> env,
     seen |-> FALSE, ts |-> 0, did_ingest |-> FALSE, raised |-> FALSE,
     indexed_pages |-> 0, indexed_chunks |-> 0]

\* ingest_topic(Topic, namespace) is called
CallIngestTopic(t) ==
    /\ threads[t].pc = "idle"
    /\ \E namespace \in ConcNamespaces, env \in ConcEnvs :
          threads' = [threads EXCEPT ![t] =
                         Called("ingest_topic", namespace, FALSE, env, "pipeline")]
    /\ UNCHANGED <<collections, last, clock, hashSeed>>

\* research(Topic, namespace, force) is called: force or (not
\* _namespace_exists(ns)) probes the store only when force is False
CallResearch(t) ==
    /\ threads[t].pc = "idle"
    /\ \E namespace \in ConcNamespaces, force \in BOOLEAN, env \in ConcEnvs :
          threads' = [threads EXCEPT ![t] =
                         Called("research", namespace, force, env,
                                IF force THEN "pipeline" ELSE "probe")]
    /\ UNCHANGED <<collections, last, clock, hashSeed>>

\* a probe that finds every namespace
need_ingest_forced_only(force, exists) == force

\* need_ingest = force or (not _namespace_exists(ns))
need_ingest(force, exists) == force \/ ~exists

\* _namespace_exists(ns): one get_collection, no lock held afterwards
Probe(t) ==
    /\ threads[t].pc = "probe"
    /\ LET exists == _namespace_exists(collections, threads[t].ns)
       IN  threads' =
              IF need_ingest(threads[t].force, exists)
              THEN [threads EXCEPT ![t].pc = "pipeline", ![t].seen = exists]
              ELSE [Returned(t, FALSE, FALSE, 0, 0) EXCEPT ![t].seen = exists]
    /\ UNCHANGED <<collections, last, clock, hashSeed>>

\* the records the run of caller thr hands to upsert_vectors
RecordsOf(thr) ==
    IngestRecords(StagesOf[thr.env].chunks, StagesOf[thr.env].vecs, thr.ts)

\* the well-formed records of a batch and their ids
ValidRecords(records) ==
    SelectAt(records, {i \in 1..Len(records) : ValidRecord(records[i])}, 1)

ValidIds(records) ==
    [i \in 1..Len(ValidRecords(records)) |-> RecordId(ValidRecords(records)[i])]

\* search, fetch, chunk, embed, then the records dated by now_iso() and the
\* checks of upsert_vectors that come before the store is opened
Pipeline(t) ==
    /\ threads[t].pc = "pipeline"
    /\ LET st == StagesOf[threads[t].env]
           dated == [threads EXCEPT ![t].ts = clock]
       IN  threads' =
              IF ~st.fetched \/ ~st.chunked
              THEN [dated EXCEPT ![t].pc = "done", ![t].did_ingest = TRUE]
              ELSE IF ~st.embedded \/ RecordsOf(dated[t]) = <<>>
              THEN [dated EXCEPT ![t].pc = "done", ![t].did_ingest = TRUE,
                                 ![t].indexed_pages = Len(st.docs)]
              ELSE [dated EXCEPT ![t].pc = "create", ![t].indexed_pages = Len(st.docs)]
    /\ clock' = Min(clock + 1, MaxClock)
    /\ UNCHANGED <<collections, last, hashSeed>>

\* client.get_or_create_collection(name), then the validation loop
Create(t) ==
    /\ threads[t].pc = "create"
    /\ collections' = get_or_create_collection(collections, _collection_name(threads[t].ns))
    /\ LET ids == ValidIds(RecordsOf(threads[t]))
       IN  threads' =
              IF ids = <<>>
              THEN Returned(t, TRUE, FALSE, threads[t].indexed_pages, 0)
              ELSE At(t, "write")
    /\ UNCHANGED <<last, clock, hashSeed>>

\* collection.upsert(ids, embeddings, documents, metadatas), then the return
Write(t) ==
    /\ threads[t].pc = "write"
    /\ LET valid == ValidRecords(RecordsOf(threads[t]))
           ids == ValidIds(RecordsOf(threads[t]))
           col_name == _collection_name(threads[t].ns)
       IN  IF Cardinality(Range(ids)) < Len(ids)
           THEN /\ threads' = Returned(t, TRUE, TRUE, 0, 0)
                /\ UNCHANGED collections
           ELSE /\ threads' = Returned(t, TRUE, FALSE, threads[t].indexed_pages, Len(ids))
                /\ collections' =
                      [collections EXCEPT ![col_name] =
                          collection_upsert(@, ids,
                              [i \in 1..Len(valid) |-> valid[i].embedding],
                              [i \in 1..Len(valid) |-> Strip(valid[i].document)],
                              [i \in 1..Len(valid) |-> valid[i].metadata])]
    /\ UNCHANGED <<last, clock, hashSeed>>

NextConcurrent ==
    \E t \in Threads :
       CallIngestTopic(t) \/ CallResearch(t) \/ Probe(t) \/ Pipeline(t) \/ Create(t) \/ Write(t)

SpecConcurrent == InitConcurrent /\ [][NextConcurrent]_vars

(***************************************************************************)
(* Ingestion runs into two namespaces at once.                             *)
(***************************************************************************)
\* the store a run leaves when it is the only one, on an empty store
IngestedAlone(thr) == ingest_topic(NoCollections, Topic, thr.ns, thr.env, thr.ts).store

\* the collection of the namespace of caller u holds exactly what the run of u
\* wrote
OwnRecords(u) ==
    LET solo == IngestedAlone(threads[u])
        name == _collection_name(threads[u].ns)
    IN  IF name \in DOMAIN solo
        THEN name \in DOMAIN collections /\ collections[name] = solo[name]
        ELSE name \notin DOMAIN collections

AllDone == \A t \in Threads : threads[t].pc = "done"

\* the step leaves the collection of that name as it is: no record added,
\* changed or removed
Untouched(name) ==
    IF name \in DOMAIN collections
    THEN name \in DOMAIN collections' /\ collections'[name] = collections[name]
    ELSE name \notin DOMAIN collections'

\* caller t takes a step on the store while caller u is in a call
StoreStep(t, u) ==
    /\ t # u
    /\ threads[t].pc \in {"create", "write"}
    /\ threads'[t] # threads[t]
    /\ threads[u].pc # "idle"

\* a namespace without the white space at its end
TrailingStripped(ns) == Tail(Strip(<<"_">> \o ns))

\* both runs are over and each namespace holds what its own run wrote
EndsWithOwnRecords == AllDone => \A u \in Threads : OwnRecords(u)

\* C22 as stated: for two different namespaces A and B, in every interleaving
\* of an ingestion into A with an ingestion into B, an upsert into A never
\* adds, changes or removes a record of B, and each namespace ends with
\* exactly the records its own run wrote.
C22_NamespaceIsolation ==
    /\ [][\A t, u \in Threads :
            (StoreStep(t, u) /\ threads[t].ns # threads[u].ns)
               => Untouched(_collection_name(threads[u].ns))]_vars
    /\ []((AllDone /\ threads[1].ns # threads[2].ns) => EndsWithOwnRecords)

\* C22: the same for two namespaces that differ in more than the white space
\* at their end.
C22_NamespaceIsolationStripped ==
    /\ [][\A t, u \in Threads :
            (StoreStep(t, u)
             /\ TrailingStripped(threads[t].ns) # TrailingStripped(threads[u].ns))
               => Untouched(_collection_name(threads[u].ns))]_vars
    /\ []((AllDone /\ TrailingStripped(threads[1].ns) # TrailingStripped(threads[2].ns))
            => EndsWithOwnRecords)

\* two runs that interleaved their store calls, into "x" and into "y", both
\* over, each namespace with the records of its own run
C22_Witness ==
    /\ AllDone
    /\ threads[1].ns = <<"x">> /\ threads[2].ns = <<"y">>
    /\ threads[1].indexed_chunks > 0 /\ threads[2].indexed_chunks > 0
    /\ threads[1].indexed_chunks # threads[2].indexed_chunks
    /\ threads[1].ts > threads[2].ts
    /\ OwnRecords(1) /\ OwnRecords(2)
    /\ Cardinality(DOMAIN collections) = 2

\* a run alone leaves what ingest_topic leaves
AloneAsIngestTopic ==
    \A t, u \in Threads :
       (t # u /\ threads[t].pc = "done" /\ threads[u].pc = "idle"
        /\ (threads[t].op = "ingest_topic" \/ threads[t].did_ingest))
          => /\ collections = IngestedAlone(threads[t])
             /\ threads[t].indexed_chunks =
                   ingest_topic(NoCollections, Topic, threads[t].ns, threads[t].env,
                                threads[t].ts).value.indexed_chunks
             /\ threads[t].indexed_pages =
                   ingest_topic(NoCollections, Topic, threads[t].ns, threads[t].env,
                                threads[t].ts).value.indexed_pages

(***************************************************************************)
(* Two research calls at once for one namespace.                           *)
(***************************************************************************)
\* caller t is in, or has returned from, research(force=False) on ns
ResearchUnforced(t, ns) ==
    /\ threads[t].pc # "idle"
    /\ threads[t].op = "research" /\ ~threads[t].force
    /\ threads[t].ns = ns

\* C23: the existence probe of research takes no lock: a caller at the probe
\* can always take it, whatever the other caller is doing, and a
\* research(force=False) call ingests exactly when its probe saw the namespace
\* absent; so two concurrent calls for one namespace that does not exist
\* yet can both see it absent and both return did_ingest = True.
C23_ProbeTakesNoLock ==
    \A t \in Threads :
       /\ threads[t].pc = "probe" => ENABLED Probe(t)
       /\ (threads[t].pc \in {"pipeline", "create", "write"} /\ threads[t].op = "research")
             => (threads[t].force \/ ~threads[t].seen)
       /\ (threads[t].pc = "done" /\ threads[t].op = "research" /\ ~threads[t].force
            /\ ~threads[t].raised)
             => threads[t].did_ingest = ~threads[t].seen

\* both callers ran research(force=False) on "x", both saw it absent, both
\* ingested and wrote their records
C23_Witness ==
    /\ \A t \in Threads :
          /\ ResearchUnforced(t, <<"x">>)
          /\ threads[t].pc = "done"
          /\ ~threads[t].seen
          /\ threads[t].did_ingest
          /\ threads[t].indexed_chunks > 0
    /\ HasCollection(collections, _collection_name(<<"x">>))

(***************************************************************************)
(* The retries of embed_chunks on one batch.                               *)
(***************************************************************************)
\* the number of batches of the call
BatchCount(chunks, batch_size) ==
    (Cardinality(NonEmptyAt(chunks)) + batch_size - 1) \div batch_size

\* the requests made for a batch of that script: up to the first outcome that
\* is no rate limit and no time-out, MAX_RETRIES + 1 at most
RequestsFor(script) ==
    SetMin({a \in 1..Min(Len(script), MAX_RETRIES + 1) :
               a = MAX_RETRIES + 1 \/ script[a] \notin {"rate", "timeout"}})

\* C24: on the OpenAI path the embedding backend is called at most
\* MAX_RETRIES + 1 times for one batch; a rate limit or a time-out is retried
\* while attempts remain; after the last attempt fails the records of the
\* batch are dropped and the next batch is processed; a batch that succeeds,
\* at once or after retries, contributes each of its chunks exactly once.
C24_RetryPerBatch ==
    (last.op = "embed_chunks" /\ last.done /\ last.env.provider = "openai") =>
        /\ Len(last.out.calls) = BatchCount(last.chunks, last.batch_size)
        /\ \A b \in 1..Len(last.out.calls) :
              /\ last.out.calls[b].calls <= MAX_RETRIES + 1
              /\ last.out.calls[b].calls = RequestsFor(last.env.script[b])
        /\ \A i \in NonEmptyAt(last.chunks) :
              CountIn(ChunkIds(last.out.value), last.chunks[i].chunk_id) =
                 Cardinality({j \in NonEmptyAt(last.chunks) :
                                 /\ last.chunks[j].chunk_id = last.chunks[i].chunk_id
                                 /\ BatchSucceeds(last.env,
                                                  BatchOf(last.chunks, last.batch_size, j))})

\* three batches of one chunk: the first embedded at the third request, the
\* second given up after three requests, the third embedded at once
C24_Witness ==
    /\ last.op = "embed_chunks" /\ last.done /\ last.env.provider = "openai"
    /\ last.batch_size = 1 /\ Len(last.out.calls) = 3
    /\ last.env.script[1] = <<"rate", "timeout", "ok">>
    /\ last.env.script[2] = <<"timeout", "rate", "rate">>
    /\ last.env.script[3] = <<"ok">>
    /\ last.out.calls[1].calls = 3 /\ last.out.calls[2].calls = 3
    /\ last.out.calls[3].calls = 1
    /\ last.chunks[2].chunk_id \notin {last.chunks[1].chunk_id, last.chunks[3].chunk_id}
    /\ ChunkIds(last.out.value) = <<last.chunks[1].chunk_id, last.chunks[3].chunk_id>>

(***************************************************************************)
(* The waits between the attempts.                                         *)
(***************************************************************************)
\* the waits of a call that made that many requests: 1, 2, 4, ... seconds, and
\* none after the last request
Doubling(waits) == \A n \in 1..Len(waits) : waits[n] = 2 ^ (n - 1)

BetweenAttempts(waits, requests) ==
    IF requests = 0 THEN waits = <<>> ELSE Len(waits) <= requests - 1

\* C25: in search_web the wait before the n-th retry is 2^(n-1) seconds,
\* restarting at 1 for each call, and a wait occurs only between two attempts:
\* none after the final attempt before the function returns (as in fetch_page
\* and embed_chunks).
C25_BackoffSchedule ==
    (last.op = "search_web" /\ last.done) =>
        /\ Doubling(last.out.waits)
        /\ BetweenAttempts(last.out.waits, last.out.requests)

\* the schedule of fetch_page
FetchBackoffSchedule ==
    (last.op = "fetch_page" /\ last.done) =>
        /\ Doubling(last.out.waits)
        /\ BetweenAttempts(last.out.waits, last.out.requests)

\* the schedule of embed_chunks, batch by batch
EmbedBackoffSchedule ==
    (last.op = "embed_chunks" /\ last.done) =>
        \A b \in 1..Len(last.out.calls) :
           /\ Doubling(last.out.calls[b].waits)
           /\ BetweenAttempts(last.out.calls[b].waits, last.out.calls[b].calls)

(***************************************************************************)
(* What a write leaves in the store.                                       *)
(***************************************************************************)
\* the ids a collection holds, none when it does not exist
IdsOf(store, name) == IF name \in DOMAIN store THEN DOMAIN store[name] ELSE {}

\* no collection and no record is removed by the step
NothingRemoved ==
    \A name \in DOMAIN collections :
       /\ name \in DOMAIN collections'
       /\ DOMAIN collections[name] \subseteq DOMAIN collections'[name]

\* the step wrote the ids into the collection: they are added to the ids held,
\* the records of all other ids and all other collections stay as they were
WroteExactly(name, ids) ==
    /\ IdsOf(collections', name) = IdsOf(collections, name) \cup ids
    /\ \A id \in IdsOf(collections, name) \ ids :
          collections'[name][id] = collections[name][id]
    /\ \A other \in (DOMAIN collections \cup DOMAIN collections') \ {name} :
          /\ other \in DOMAIN collections /\ other \in DOMAIN collections'
          /\ collections'[other] = collections[other]

\* an upsert_vectors call that returned: every well-formed record is stored
\* under its id with the embedding, document and metadata of this call
UpsertStored ==
    LET name == _collection_name(last'.namespace)
        valid == ValidRecords(last'.records)
    IN  /\ WroteExactly(name, {RecordId(valid[i]) : i \in 1..Len(valid)})
        /\ \A i \in 1..Len(valid) :
              collections'[name][RecordId(valid[i])] =
                 [embedding |-> valid[i].embedding, document |-> Strip(valid[i].document),
                  metadata |-> valid[i].metadata]

\* an ingestion that reached the store: its records are stored under their
\* chunk ids, dated by this run
IngestStored ==
    LET name == _collection_name(last'.out.value.namespace)
        ids == Range(last'.out.stages.records)
    IN  /\ WroteExactly(name, ids)
        /\ \A id \in ids : collections'[name][id].metadata.added_at = clock

\* the calls that write the store: upsert_vectors called directly and
\* ingestion runs, the first into a namespace and the ones that follow
StoreRecordLists == { <<R1, R2>>, <<R3>>, <<NoId, R2, NoVector>> }

UpsertStore == UpsertVectorsOf(StoreRecordLists)

NextStore == UpsertStore \/ IngestTopic

SpecStore == Init /\ [][NextStore]_vars

\* C26: a namespace holds one record per id written to it, with the embedding,
\* document and metadata of the most recent call that wrote the id: every
\* call inserts the ids that are new, overwrites the ids held, leaves every
\* other record as it was and removes none, re-ingestion included.
C26_UpsertSemantics ==
    [][/\ NothingRemoved
       /\ (last'.op = "upsert_vectors" /\ ~last'.out.raised /\ last'.records # <<>>)
             => UpsertStored
       /\ (last'.op = "ingest_topic" /\ ~last'.out.raised
            /\ last'.out.stages.upserted /\ last'.out.stages.records # <<>>)
             => IngestStored]_vars

\* a second ingestion into "x" that kept one page less than the first: the
\* chunks of the page kept again carry the date of this run, the chunk of the
\* other page is still there with the date of the first run, beside the
\* records written by upsert_vectors
C26_Witness ==
    /\ last.op = "ingest_topic" /\ ~last.out.raised
    /\ last.out.value.namespace = <<"x">>
    /\ last.out.stages.records # <<>>
    /\ LET col == collections[_collection_name(<<"x">>)]
       IN  /\ \E id \in DOMAIN col : id.kind = "raw"
           /\ \A id \in Range(last.out.stages.records) : col[id].metadata.added_at = 1
           /\ \E id \in DOMAIN col \ Range(last.out.stages.records) :
                 id.kind = "sha1" /\ col[id].metadata.added_at = 0

(***************************************************************************)
(* The number of results the search is asked for.                          *)
(***************************************************************************)
\* the run fetched the first MAX_PAGES_TO_SCRAPE hits of the search, no more
FetchedFirstHits ==
    /\ last.out.stages.k = 2 * MAX_PAGES_TO_SCRAPE
    /\ Len(last.out.stages.hits) <= MAX_PAGES_TO_SCRAPE
    /\ last.out.stages.hits =
          Take(search_web(last.out.stages.k, last.env.search).value, MAX_PAGES_TO_SCRAPE)
    /\ last.out.value.indexed_pages + last.out.value.skipped_pages <= MAX_PAGES_TO_SCRAPE

\* C27 as stated: ingest_topic asks the search provider for
\* 2 x MAX_PAGES_TO_SCRAPE results and fetches only the first
\* MAX_PAGES_TO_SCRAPE of the hits returned.
C27_Oversampling ==
    (last.op = "ingest_topic" /\ last.env.search.key) =>
        /\ last.out.stages.num = 2 * MAX_PAGES_TO_SCRAPE
        /\ FetchedFirstHits

\* C27: ingest_topic calls search_web with k = 2 x MAX_PAGES_TO_SCRAPE, the
\* provider is asked for that number clamped to 1..MAX_SEARCH_RESULTS, and
\* only the first MAX_PAGES_TO_SCRAPE of the hits returned are fetched.
C27_OversamplingClamped ==
    (last.op = "ingest_topic" /\ last.env.search.key) =>
        /\ last.out.stages.num = Max(1, Min(2 * MAX_PAGES_TO_SCRAPE, MAX_SEARCH_RESULTS))
        /\ FetchedFirstHits

\* a run whose search returned three hits for the four asked of search_web:
\* the provider was asked for three, two pages were fetched
C27_Witness ==
    /\ last.op = "ingest_topic" /\ last.env.search.key
    /\ last.out.stages.k = 4
    /\ last.out.stages.num = 3
    /\ Len(search_web(last.out.stages.k, last.env.search).value) = 3
    /\ Len(last.out.stages.hits) = 2
    /\ last.out.value.indexed_pages + last.out.value.skipped_pages = 2

(***************************************************************************)
(* The counts an ingestion run returns.                                    *)
(***************************************************************************)
\* the hits whose page the run asked for
HitsFetched == IF last.out.stages.fetched THEN Len(last.out.stages.hits) ELSE 0

\* C28: in every return of ingest_topic, the short-circuit returns included,
\* indexed_pages + skipped_pages is the number of search hits the run fetched
\* and indexed_chunks is at most the number of chunks produced from the
\* indexed pages.
C28_PageAccounting ==
    (last.op = "ingest_topic" /\ ~last.out.raised) =>
        /\ last.out.value.indexed_pages + last.out.value.skipped_pages = HitsFetched
        /\ last.out.value.indexed_pages = Len(last.out.stages.docs)
        /\ last.out.value.indexed_chunks <= Len(AllChunkIds)

\* a run that fetched two hits, kept one page and skipped the other at the
\* gate, and indexed every chunk of the page kept
C28_Witness ==
    /\ last.op = "ingest_topic" /\ ~last.out.raised
    /\ HitsFetched = 2
    /\ last.out.value.indexed_pages = 1 /\ last.out.value.skipped_pages = 1
    /\ FetchedOf(2).status = 200
    /\ Len(AllChunkIds) > 0
    /\ last.out.value.indexed_chunks = Len(AllChunkIds)

\* a run that stopped after the fetch loop: both hits skipped, nothing indexed
AllPagesSkipped ==
    /\ last.op = "ingest_topic" /\ ~last.out.raised
    /\ HitsFetched = 2
    /\ last.out.value.indexed_pages = 0 /\ last.out.value.skipped_pages = 2

(***************************************************************************)
(* The ids of different chunks.                                            *)
(***************************************************************************)
\* text[:40].replace("\n", " ")
PrefixOf(chunk) == ReplaceNewlines(Take(chunk.text, PREFIX_LEN))

SameTriple(c, d) ==
    /\ c.url = d.url
    /\ c.order = d.order
    /\ PrefixOf(c) = PrefixOf(d)

\* C29: chunks that differ in (url, order, 40-character text prefix) receive
\* different chunk_ids, whichever split_chunks calls made them.
C29_ChunkIdsUnique ==
    [][(last.op = "split_chunks" /\ last'.op = "split_chunks") =>
          \A i \in 1..Len(last.out), j \in 1..Len(last'.out) :
             ~SameTriple(last.out[i], last'.out[j])
                => last.out[i].chunk_id # last'.out[j].chunk_id]_vars

\* the chunks of one call have pairwise distinct ids
OneCallDistinctIds ==
    (last.op = "split_chunks") =>
        \A i, j \in 1..Len(last.out) : i # j => last.out[i].chunk_id # last.out[j].chunk_id

(***************************************************************************)
(* Stores filled by research and ingest_topic runs alone.                  *)
(***************************************************************************)
IngestTopicRun == IngestTopicOf(IngestEnvs \cup {CollidingEnv})

ResearchRun == ResearchOf(RunEnvs)

NextRuns == IngestTopicRun \/ ResearchRun

SpecRuns == Init /\ [][NextRuns]_vars

HasContent(store, name) == HasCollection(store, name) /\ IdsOf(store, name) # {}

\* the step is an ingestion run, called directly or by research
IngestionRan ==
    \/ last'.op = "ingest_topic"
    \/ last'.op = "research" /\ last'.out.value.did_ingest

\* the step is a research(force=False) call
UnforcedResearch == last'.op = "research" /\ ~last'.force

\* C30: in a store filled by research and ingest_topic runs alone a collection
\* exists only if it holds a record: a run that ends with no record to write
\* leaves the store as it was, a namespace it found absent included, so a
\* research(force=False) call on an absent namespace ingests again, and a
\* research call that returns did_ingest = False leaves a namespace that has
\* indexed content.
C30_NoEmptyNamespace ==
    /\ [][/\ (IngestionRan /\ last'.out.stages.records = <<>>) => collections' = collections
          /\ (UnforcedResearch
                /\ ~_namespace_exists(collections, last'.out.value.namespace))
                => last'.out.value.did_ingest]_vars
    /\ [](\A name \in DOMAIN collections : IdsOf(collections, name) # {})
    /\ []((last.op = "research" /\ ~last.out.value.did_ingest) =>
             HasContent(collections, _collection_name(last.out.value.namespace)))

\* research(force=False) ran into a namespace and had no record to write, the
\* embeddings being refused: the namespace is still absent, next to another
\* one that an earlier run filled
UnforcedRunLeftAbsent ==
    /\ last.op = "research" /\ ~last.force /\ ~last.out.raised
    /\ last.out.value.did_ingest
    /\ last.out.stages.docs # <<>> /\ last.out.stages.records = <<>>
    /\ ~HasCollection(collections, _collection_name(last.out.value.namespace))
    /\ \E name \in DOMAIN collections : HasContent(collections, name)

\* research found the namespace and did not ingest
FoundIndexed ==
    /\ last.op = "research" /\ ~last.out.value.did_ingest
    /\ HasContent(collections, _collection_name(last.out.value.namespace))

====
